---- MODULE Spec2Model ----
(***************************************************************************)
(* Translation Store of translation-manager-mcp: the in-memory catalog     *)
(* (TranslationManager), the flatten/unflatten tree codec, the locale      *)
(* documents, status document and snapshot on disk, and the debounced      *)
(* file watcher.                                                           *)
(*                                                                         *)
(* Strings are sequences of one-character strings, so that split,          *)
(* startsWith, sort and the typography rules are computed, not tabulated.  *)
(* A JSON value is a tagged record: [t |-> "str", s |-> chars],            *)
(* [t |-> "arr", items |-> <<value, ...>>] or                              *)
(* [t |-> "obj", kv |-> <<[k |-> name, v |-> value], ...>>] (an object     *)
(* keeps the insertion order of its members, as Object.entries does).      *)
(***************************************************************************)
EXTENDS Integers, Sequences, FiniteSets, TLC

----------------------------------------------------------------------------
(* Characters and strings *)

NBSP == "~"     \* stands for U+00A0

Str(s) == [t |-> "str", s |-> s]
Arr(items) == [t |-> "arr", items |-> items]
Undefined == [t |-> "undef"]
EmptyObject == [t |-> "obj", kv |-> <<>>]
Throw == [t |-> "throw"]

\* UTF-16 code units of the characters in use
CharCode == ("-" :> 45) @@ ("." :> 46) @@ ("a" :> 97) @@ ("b" :> 98) @@ ("c" :> 99)
            @@ ("j" :> 106) @@ ("l" :> 108) @@ ("n" :> 110) @@ ("o" :> 111)
            @@ ("p" :> 112) @@ ("s" :> 115)

RECURSIVE StringLess(_, _)
StringLess(a, b) ==
    IF b = <<>> THEN FALSE
    ELSE IF a = <<>> THEN TRUE
    ELSE IF Head(a) # Head(b) THEN CharCode[Head(a)] < CharCode[Head(b)]
    ELSE StringLess(Tail(a), Tail(b))

RECURSIVE SplitAcc(_, _, _)
SplitAcc(s, sep, acc) ==
    IF s = <<>> THEN <<acc>>
    ELSE IF Head(s) = sep THEN <<acc>> \o SplitAcc(Tail(s), sep, <<>>)
    ELSE SplitAcc(Tail(s), sep, Append(acc, Head(s)))

\* String.prototype.split(sep) for a one-character separator
Split(s, sep) == SplitAcc(s, sep, <<>>)

\* String.prototype.startsWith
StartsWith(s, prefix) ==
    /\ Len(prefix) <= Len(s)
    /\ SubSeq(s, 1, Len(prefix)) = prefix

Range(seq) == {seq[i] : i \in DOMAIN seq}

----------------------------------------------------------------------------
(* Typography transform: src/utils/non-breaking-spaces.js *)

\* Languages with an entry in NON_BREAKING_SPACE_RULES
RuleLanguages == { <<"p","l">>, <<"c","s">>, <<"s","k">>, <<"f","r">>, <<"d","e">>,
                   <<"h","u">>, <<"e","s">>, <<"i","t">>, <<"n","l">> }

\* The text alphabet is {"w", "x", " ", NBSP}: "w" is a single-letter word of
\* pl, cs (as "v") ... ; of the words of the rule tables only "w" (pl) can be
\* spelled with it.
AllShortWords(language) == IF language = <<"p","l">> THEN { <<"w">> } ELSE {}

\* \w of the regular expression
IsWordChar(c) == c \in {"w", "x"}

RECURSIVE SkipSpaces(_, _)
SkipSpaces(s, i) == IF i <= Len(s) /\ s[i] = " " THEN SkipSpaces(s, i + 1) ELSE i

\* content.replace(/\b(words) +(?!#{1,6})/gi, word + NBSP), scanning from i.
\* ('#' is not in the alphabet, so the lookahead never rejects.)
RECURSIVE ReplaceShortWords(_, _, _)
ReplaceShortWords(s, i, words) ==
    IF i > Len(s) THEN <<>>
    ELSE IF /\ <<s[i]>> \in words
            /\ (i = 1 \/ ~IsWordChar(s[i - 1]))
            /\ i + 1 <= Len(s)
            /\ s[i + 1] = " "
         THEN <<s[i], NBSP>> \o ReplaceShortWords(s, SkipSpaces(s, i + 1), words)
         ELSE <<s[i]>> \o ReplaceShortWords(s, i + 1, words)

\* Rules 2-4 (number + unit, French punctuation, single digits) need a digit
\* or a punctuation mark, which the text alphabet does not have.
insertNonBreakingSpaces(content, language) ==
    IF language \notin RuleLanguages THEN content
    ELSE Str(ReplaceShortWords(content.s, 1, AllShortWords(language)))

getLanguageFromLocale(locale) == Split(locale, "-")[1]

----------------------------------------------------------------------------
(* Tree codec: flattenJson / unflattenJson *)

RECURSIVE flattenEntries(_, _)
flattenEntries(kv, parentKey) ==
    IF kv = <<>> THEN <<>>
    ELSE LET e == Head(kv)
             newKey == IF parentKey # <<>> THEN parentKey \o <<".">> \o e.k ELSE e.k
         IN (IF e.v.t = "obj" THEN flattenEntries(e.v.kv, newKey)
                              ELSE << <<newKey, e.v>> >>)
            \o flattenEntries(Tail(kv), parentKey)

\* flattenJson(data): the (dottedKey, leaf) pairs of an object, depth first
flattenJson(data) == flattenEntries(data.kv, <<>>)

\* a[0].split('.').length, then a[0].localeCompare(b[0])
FlatBefore(a, b) ==
    LET depthA == Len(Split(a[1], "."))
        depthB == Len(Split(b[1], "."))
    IN IF depthA # depthB THEN depthA < depthB ELSE StringLess(a[1], b[1])

RECURSIVE InsertFlat(_, _)
InsertFlat(x, sorted) ==
    IF sorted = <<>> THEN <<x>>
    ELSE IF FlatBefore(x, Head(sorted)) THEN <<x>> \o sorted
    ELSE <<Head(sorted)>> \o InsertFlat(x, Tail(sorted))

\* Variant that leaves the pairs in the order given
Unsorted(flatData) == flatData

\* [...flatData].sort(compare): a stable sort
RECURSIVE SortFlat(_)
SortFlat(flatData) ==
    IF flatData = <<>> THEN <<>>
    ELSE InsertFlat(flatData[Len(flatData)], SortFlat(SubSeq(flatData, 1, Len(flatData) - 1)))

\* obj[key]
GetMember(obj, key) ==
    IF \E i \in DOMAIN obj.kv : obj.kv[i].k = key
    THEN (obj.kv[CHOOSE i \in DOMAIN obj.kv : obj.kv[i].k = key]).v
    ELSE Undefined

\* obj[key] = value: an existing member keeps its place, a new one goes last
SetMember(obj, key, value) ==
    IF \E i \in DOMAIN obj.kv : obj.kv[i].k = key
    THEN [obj EXCEPT !.kv = [i \in DOMAIN obj.kv |->
                               IF obj.kv[i].k = key THEN [k |-> key, v |-> value]
                                                    ELSE obj.kv[i]]]
    ELSE [obj EXCEPT !.kv = Append(obj.kv, [k |-> key, v |-> value])]

\* !value
Falsy(value) == value.t = "undef" \/ (value.t = "str" /\ value.s = <<>>)

\* The loop body of unflattenJson for one pair: walks keys[0..n-2] creating
\* objects where the member is falsy, then assigns the last one.  Class code
\* is strict: assigning a member of a string throws a TypeError.  Walking
\* into an array assigns a named property of the array, which is no element
\* of it and which JSON.stringify leaves out: the tree is as it was.
RECURSIVE SetPath(_, _, _)
SetPath(current, keys, value) ==
    IF Len(keys) = 1 THEN SetMember(current, Head(keys), value)
    ELSE LET member == GetMember(current, Head(keys))
             next == IF Falsy(member) THEN EmptyObject ELSE member
         IN IF next.t = "arr" THEN current
            ELSE IF next.t # "obj" THEN Throw
            ELSE LET sub == SetPath(next, Tail(keys), value)
                 IN IF sub.t = "throw" THEN Throw
                    ELSE SetMember(current, Head(keys), sub)

RECURSIVE UnflattenSorted(_, _)
UnflattenSorted(sortedData, result) ==
    IF sortedData = <<>> THEN result
    ELSE LET r == SetPath(result, Split(Head(sortedData)[1], "."), Head(sortedData)[2])
         IN IF r.t = "throw" THEN Throw ELSE UnflattenSorted(Tail(sortedData), r)

\* unflattenJson(flatData): the nested object, or Throw
unflattenJson(flatData) == UnflattenSorted(SortFlat(flatData), EmptyObject)

----------------------------------------------------------------------------
(* Universe of the model *)

Ka == <<"a">>
Kab == <<"a", ".", "b">>
Kc == <<"c">>
Keys == {Ka, Kab, Kc}

Lpl == <<"p", "l">>
Lplpl == <<"p", "l", "-", "p", "l">>
Locales == {Lpl, Lplpl}

TEmpty == Str(<<>>)
Twx == Str(<<"w", " ", "x">>)
Ty == Str(<<"y">>)
Ay == Arr(<<Ty>>)

\* Texts a caller passes to update / add
InputTexts == {TEmpty, Twx}

Obj1(k1, v1) == [t |-> "obj", kv |-> << [k |-> k1, v |-> v1] >>]
Obj2(k1, v1, k2, v2) == [t |-> "obj", kv |-> << [k |-> k1, v |-> v1], [k |-> k2, v |-> v2] >>]

Absent == [t |-> "absent"]
Malformed == [t |-> "bad"]

\* Locale documents an editor may leave on disk
\*   {"a": "w x"}     {"a": "y"}     {"a": {"b": "w x"}, "c": ""}     not JSON
ExternalDocs ==
    { Obj1(<<"a">>, Twx),
      Obj1(<<"a">>, Ty),
      Obj2(<<"a">>, Obj1(<<"b">>, Twx), <<"c">>, TEmpty),
      Malformed }

\* Locale documents with an array leaf:   {"a": "w x"}     {"c": ["y"]}
ArrayDocs ==
    { Obj1(<<"a">>, Twx),
      Obj1(<<"c">>, Ay) }

NoFile == [present |-> FALSE]

\* Status documents found at startup: none, or {"a": true, "c": true}
InitialStatusDocs ==
    { NoFile, [present |-> TRUE, checked |-> [k \in {Ka, Kc} |-> TRUE]] }

MaxOps == 1      \* tool calls per behaviour
MaxEdits == 1    \* external edits per behaviour

----------------------------------------------------------------------------
(* State *)

VARIABLES
    translations,           \* this.translations: entries in Map insertion order
    locales,                \* this.locales
    previousState,          \* this.previousState
    hasLoadedInitialCheck,  \* this.hasLoadedInitialCheck
    reloadTimer,            \* a reload timer is pending
    phase,                  \* "uninit" before initialize(), then "ready"
    docs,                   \* messagesDir/<locale>.json
    statusDoc,              \* messagesDir/translation-check.json
    snapshot,               \* .translation-state.json
    last,                   \* the step just taken: operation, arguments, the state
                            \* before it, the value returned, the files written
    nOps, nEdits,
    disk,                   \* "ok", or the writes that fail: "docs" (the locale
                            \* documents) or "status" (the status document)
    watch                   \* the watcher's clock and timers: the time, the
                            \* timers set and not yet run or cleared, the handle
                            \* in this.reloadTimer, counts of notifications

vars == <<translations, locales, previousState, hasLoadedInitialCheck, reloadTimer,
          phase, docs, statusDoc, snapshot, last, nOps, nEdits, disk, watch>>

EmptyMap == [x \in {} |-> Undefined]

\* The watcher before any notification: time 0, no timer, this.reloadTimer null
NoWatch == [now |-> 0, pending |-> {}, handle |-> 0, notes |-> 0, unserved |-> 0,
            served |-> 0, lastNote |-> 0, burstStart |-> 0, reloads |-> 0]

\* Map helpers over the entry sequence
KeysOf(trans) == {trans[i].key : i \in DOMAIN trans}
Has(trans, key) == key \in KeysOf(trans)
IndexOf(trans, key) == CHOOSE i \in DOMAIN trans : trans[i].key = key
Entry(trans, key) == trans[IndexOf(trans, key)]
\* obj[name] = value on a plain object
SetProp(obj, name, value) ==
    [x \in DOMAIN obj \cup {name} |-> IF x = name THEN value ELSE obj[x]]
\* delete obj[name]
DeleteProp(obj, name) == [x \in DOMAIN obj \ {name} |-> obj[x]]
\* obj[name]
Prop(obj, name) == IF name \in DOMAIN obj THEN obj[name] ELSE Undefined
NoResult == [success |-> TRUE, threw |-> FALSE, count |-> 0, list |-> <<>>]
\* The memory and the documents a step starts from
Before == [translations |-> translations, locales |-> locales, docs |-> docs,
           statusDoc |-> statusDoc, snapshot |-> snapshot, reloadTimer |-> reloadTimer]
NoBefore == [translations |-> <<>>, locales |-> <<>>, docs |-> [l \in Locales |-> Absent],
             statusDoc |-> NoFile, snapshot |-> NoFile, reloadTimer |-> FALSE]
Step(op, args, pre, result, written, statusWritten) ==
    [op |-> op, args |-> args, pre |-> pre, result |-> result, written |-> written,
     statusWritten |-> statusWritten]

----------------------------------------------------------------------------
(* Load / reload *)

\* loadPreviousState: the parsed snapshot, or null
loadPreviousState(snap) == snap

FileName(locale) == locale \o <<".", "j", "s", "o", "n">>

RECURSIVE InsertName(_, _)
InsertName(x, sorted) ==
    IF sorted = <<>> THEN <<x>>
    ELSE IF StringLess(FileName(x), FileName(Head(sorted))) THEN <<x>> \o sorted
    ELSE <<Head(sorted)>> \o InsertName(x, Tail(sorted))

RECURSIVE ListNames(_)
ListNames(present) ==
    IF present = {} THEN <<>>
    ELSE LET x == CHOOSE y \in present : TRUE
         IN InsertName(x, ListNames(present \ {x}))

\* fs.readdir(messagesDir), filtered to the locale documents and with ".json"
\* removed: the directory is listed in the byte order of the file names
\* ("pl-pl.json" before "pl.json")
Listing(d) == ListNames({l \in Locales : d[l].t # "absent"})

\* a !== b: two arrays, each parsed from its own text, are never the same
\* object
StrictNotEqual(a, b) == a.t = "arr" \/ b.t = "arr" \/ a # b

\* Variant of the comparison that finds no value changed
NeverDiffers(prev, key, locale, value) == FALSE

\* The comparison with the previous state: a value that is not the recorded
\* one, or a key that is not recorded at all
Differs(prev, key, locale, value) ==
    IF ~prev.present THEN FALSE
    ELSE IF key \in DOMAIN prev.state
         THEN StrictNotEqual(Prop(prev.state[key], locale), value)
         ELSE TRUE

\* The inner loop of the second pass: merge one document's pairs, unchecking
\* what the snapshot does not hold with the same value
RECURSIVE MergePairs(_, _, _, _)
MergePairs(trans, flatData, locale, prev) ==
    IF flatData = <<>> THEN trans
    ELSE LET key == Head(flatData)[1]
             value == Head(flatData)[2]
             t1 == IF Has(trans, key) THEN trans
                   ELSE Append(trans, [key |-> key, isChecked |-> FALSE,
                                       translations |-> EmptyMap])
             i == IndexOf(t1, key)
             differs == Differs(prev, key, locale, value)
             e == [t1[i] EXCEPT !.translations = SetProp(@, locale, value),
                                !.isChecked = IF differs THEN FALSE ELSE @]
         IN MergePairs([t1 EXCEPT ![i] = e], Tail(flatData), locale, prev)

\* Variant of the second pass that ends at the first file that does not parse
RECURSIVE LoadFilesStopping(_, _, _, _)
LoadFilesStopping(trans, files, d, prev) ==
    IF files = <<>> THEN trans
    ELSE IF d[Head(files)].t = "obj"
         THEN LoadFilesStopping(MergePairs(trans, flattenJson(d[Head(files)]),
                                           Head(files), prev),
                                Tail(files), d, prev)
         ELSE trans

\* Second pass over the listed files; a file that does not parse is skipped
RECURSIVE LoadFiles(_, _, _, _)
LoadFiles(trans, files, d, prev) ==
    IF files = <<>> THEN trans
    ELSE LET locale == Head(files)
             t1 == IF d[locale].t = "obj"
                   THEN MergePairs(trans, flattenJson(d[locale]), locale, prev)
                   ELSE trans
         IN LoadFiles(t1, Tail(files), d, prev)

\* saveCurrentState: key -> copy of the entry's translations
CurrentState(trans) ==
    [present |-> TRUE,
     state |-> [key \in KeysOf(trans) |-> Entry(trans, key).translations]]

\* loadCheckedStatus: flags of the status document onto the keys that exist
ApplyCheckedStatus(trans, status) ==
    IF ~status.present THEN trans
    ELSE [i \in DOMAIN trans |->
            IF trans[i].key \in DOMAIN status.checked
            THEN [trans[i] EXCEPT !.isChecked = status.checked[trans[i].key]]
            ELSE trans[i]]

\* Variant of saveCheckedStatus that writes only the keys whose flag is set
CheckedKeysOnly(trans) ==
    [present |-> TRUE,
     checked |-> [key \in {k \in KeysOf(trans) : Entry(trans, k).isChecked} |-> TRUE]]

\* saveCheckedStatus: key -> isChecked
CheckedStatus(trans) ==
    [present |-> TRUE,
     checked |-> [key \in KeysOf(trans) |-> Entry(trans, key).isChecked]]

\* Variant of the reload that reads the status document again
ReloadApplyingStatus(files) ==
    LET prev == loadPreviousState(snapshot)
        loaded == LoadFiles(translations, files, docs, prev)
    IN /\ previousState' = prev
       /\ locales' = files
       /\ translations' = ApplyCheckedStatus(loaded, statusDoc)
       /\ snapshot' = CurrentState(loaded)

\* loadPreviousState(); loadTranslationsFromJson()
Reload(files) ==
    LET prev == loadPreviousState(snapshot)
        loaded == LoadFiles(translations, files, docs, prev)
    IN /\ previousState' = prev
       /\ locales' = files
       /\ translations' = loaded
       /\ snapshot' = CurrentState(loaded)

Init ==
    /\ translations = <<>>
    /\ locales = <<>>
    /\ previousState = NoFile
    /\ hasLoadedInitialCheck = FALSE
    /\ reloadTimer = FALSE
    /\ phase = "uninit"
    /\ docs \in [Locales -> ExternalDocs \cup {Absent}]
    /\ statusDoc \in InitialStatusDocs
    /\ snapshot = NoFile
    /\ last = Step("none", <<>>, NoBefore, NoResult, {}, FALSE)
    /\ nOps = 0
    /\ nEdits = 0
    /\ disk = "ok"
    /\ watch = NoWatch

\* initialize(messagesDir)
\* The body of initialize: previous state, load, status document on the first
\* call only
Initialize(op) ==
    /\ \E files \in {Listing(docs)} :
         LET prev == loadPreviousState(snapshot)
             loaded == LoadFiles(translations, files, docs, prev)
         IN /\ previousState' = prev
            /\ locales' = files
            /\ snapshot' = CurrentState(loaded)
            /\ translations' = IF ~hasLoadedInitialCheck
                               THEN ApplyCheckedStatus(loaded, statusDoc)
                               ELSE loaded
            /\ last' = Step(op, <<>>, Before, NoResult, {}, FALSE)
    /\ hasLoadedInitialCheck' = TRUE
    /\ phase' = "ready"
    /\ UNCHANGED <<reloadTimer, docs, statusDoc, nEdits, disk, watch>>

\* initialize(messagesDir) at startup
initialize ==
    /\ phase = "uninit"
    /\ Initialize("initialize")
    /\ UNCHANGED nOps

\* initialize called again on the running manager
reinitialize ==
    /\ phase = "ready"
    /\ nOps < MaxOps
    /\ Initialize("reinitialize")
    /\ nOps' = nOps + 1

\* The load_from_json tool: loadPreviousState(); loadTranslationsFromJson()
load_from_json ==
    /\ phase = "ready"
    /\ nOps < MaxOps
    /\ \E files \in {Listing(docs)} :
         /\ Reload(files)
         /\ last' = Step("load", <<>>, Before, NoResult, {}, FALSE)
    /\ nOps' = nOps + 1
    /\ UNCHANGED <<hasLoadedInitialCheck, reloadTimer, phase, docs, statusDoc, nEdits,
                   disk, watch>>

\* The reload timer fires: the setTimeout callback of setupFileWatcher
reloadCallback ==
    /\ phase = "ready"
    /\ reloadTimer
    /\ \E files \in {Listing(docs)} :
         /\ Reload(files)
         /\ last' = Step("reload", <<>>, Before, NoResult, {}, FALSE)
    /\ reloadTimer' = FALSE
    /\ UNCHANGED <<hasLoadedInitialCheck, phase, docs, statusDoc, nOps, nEdits, disk,
                   watch>>

\* An editor writes or removes a locale document; the watcher callback
\* (re)starts the reload timer
Edit(documents) ==
    /\ phase = "ready"
    /\ nEdits < MaxEdits
    /\ \E l \in Locales, d \in documents \cup {Absent} :
         /\ d # docs[l]
         /\ docs' = [docs EXCEPT ![l] = d]
         /\ last' = Step("edit", <<l>>, NoBefore, NoResult, {}, FALSE)
    /\ reloadTimer' = TRUE
    /\ nEdits' = nEdits + 1
    /\ UNCHANGED <<translations, locales, previousState, hasLoadedInitialCheck,
                   phase, statusDoc, snapshot, nOps, disk, watch>>

externalEdit == Edit(ExternalDocs)

\* The same, with documents that hold an array leaf
arrayEdit == Edit(ArrayDocs)

----------------------------------------------------------------------------
(* Persistence *)

\* The pairs saveTranslationsToJsonForLocales collects for one locale:
\* every entry with a value for it, typography applied
RECURSIVE FlatDataFor(_, _)
FlatDataFor(trans, locale) ==
    IF trans = <<>> THEN <<>>
    ELSE LET data == Head(trans)
         IN (IF locale \in DOMAIN data.translations
             THEN << <<data.key, insertNonBreakingSpaces(data.translations[locale],
                                                         getLanguageFromLocale(locale))>> >>
             ELSE <<>>)
            \o FlatDataFor(Tail(trans), locale)

\* The loop of saveTranslationsToJsonForLocales: writes each listed locale that
\* is in this.locales; an exception of unflattenJson ends the loop
RECURSIVE WriteLocales(_, _, _, _, _)
WriteLocales(localesToSave, trans, locs, d, written) ==
    IF localesToSave = <<>> THEN [ok |-> TRUE, docs |-> d, written |-> written, io |-> FALSE]
    ELSE LET locale == Head(localesToSave)
         IN IF locale \notin Range(locs)
            THEN WriteLocales(Tail(localesToSave), trans, locs, d, written)
            ELSE LET nestedData == unflattenJson(FlatDataFor(trans, locale))
                 IN IF nestedData.t = "throw"
                    THEN [ok |-> FALSE, docs |-> d, written |-> written, io |-> FALSE]
                    ELSE IF disk = "docs"      \* fs.writeFile rejects
                    THEN [ok |-> FALSE, docs |-> d, written |-> written, io |-> TRUE]
                    ELSE WriteLocales(Tail(localesToSave), trans, locs,
                                      [d EXCEPT ![locale] = nestedData],
                                      written \cup {locale})

\* saveTranslationsToJsonForLocales(localesToSave): the locale documents, then
\* the status document
saveTranslationsToJsonForLocales(localesToSave, trans, locs, d, status) ==
    LET w == WriteLocales(localesToSave, trans, locs, d, {})
        statusOk == w.ok /\ disk # "status"     \* saveCheckedStatus rethrows
    IN [ok |-> statusOk, docs |-> w.docs, written |-> w.written,
        status |-> IF statusOk THEN CheckedStatus(trans) ELSE status,
        statusWritten |-> statusOk,
        io |-> w.io \/ (w.ok /\ disk = "status")]

\* saveTranslationsToJson()
saveTranslationsToJson(trans, locs, d, status) ==
    saveTranslationsToJsonForLocales(locs, trans, locs, d, status)

NotSaved(d, status) ==
    [ok |-> TRUE, docs |-> d, written |-> {}, status |-> status, statusWritten |-> FALSE,
     io |-> FALSE]

\* What a tool call leaves behind
Outcome(trans, locs, saved, result) ==
    [trans |-> trans, locs |-> locs, docs |-> saved.docs, status |-> saved.status,
     written |-> saved.written, statusWritten |-> saved.statusWritten,
     result |-> [io |-> saved.io] @@ result]

Returned(success, count, list) ==
    [success |-> success, threw |-> FALSE, count |-> count, list |-> list]
Thrown == [success |-> FALSE, threw |-> TRUE, count |-> 0, list |-> <<>>]

\* A tool call ends: its effects, and the watcher sees the documents it wrote
Finish(op, args, o) ==
    /\ translations' = o.trans
    /\ locales' = o.locs
    /\ docs' = o.docs
    /\ statusDoc' = o.status
    /\ last' = Step(op, args, Before, o.result, o.written, o.statusWritten)
    /\ reloadTimer' = (reloadTimer \/ o.written # {})
    /\ nOps' = nOps + 1
    /\ UNCHANGED <<previousState, hasLoadedInitialCheck, phase, snapshot, nEdits, disk,
                   watch>>

----------------------------------------------------------------------------
(* Arguments of update and add: an object key -> (locale -> text), as the *)
(* sequence of its entries                                                *)

RECURSIVE Triples(_)
Triples(updates) ==
    IF updates = <<>> THEN <<>>
    ELSE LET key == Head(updates)[1]
             lts == Head(updates)[2]
         IN [i \in DOMAIN lts |-> <<key, lts[i][1], lts[i][2]>>] \o Triples(Tail(updates))

\* Append x unless the sequence holds it: Set.add, in insertion order
AddOnce(seq, x) == IF x \in Range(seq) THEN seq ELSE Append(seq, x)

\* One key with no locale, one locale or both; two keys with one locale each
Batches ==
    {<< <<k, <<>> >> >> : k \in Keys}
    \cup {<< <<k, << <<l, t>> >> >> >> : k \in Keys, l \in Locales, t \in InputTexts}
    \cup {<< <<k, << <<Lpl, Twx>>, <<Lplpl, Twx>> >> >> >> : k \in Keys}
    \cup {<< <<Ka, << <<Lpl, Twx>> >> >>, <<Kc, << <<Lpl, Twx>> >> >> >>,
          << <<Kab, << <<Lplpl, Twx>> >> >>, <<Ka, << <<Lplpl, Twx>> >> >> >>}

----------------------------------------------------------------------------
(* updateTranslations *)

\* The triple is applied: the key exists and the locale is known
Applies(trans, locs, triple) == Has(trans, triple[1]) /\ triple[2] \in Range(locs)

\* Variant that stores the text as given
rawTranslation(translation, locale) == translation

\* language = getLanguageFromLocale(locale);
\* processedTranslation = insertNonBreakingSpaces(translation, language)
processedTranslation(translation, locale) ==
    insertNonBreakingSpaces(translation, getLanguageFromLocale(locale))

\* Variant that also clears the review flag of the entry it writes
UpdateEntryUnchecking(entry, locale, translation) ==
    [entry EXCEPT !.translations = SetProp(@, locale, processedTranslation(translation, locale)),
                  !.isChecked = FALSE]

\* entry.translations[locale] = processedTranslation
UpdateEntry(entry, locale, translation) ==
    [entry EXCEPT !.translations = SetProp(@, locale, processedTranslation(translation, locale))]

\* The in-memory loop of updateTranslations over the triples
RECURSIVE UpdateEntries(_, _, _)
UpdateEntries(trans, locs, triples) ==
    IF triples = <<>> THEN trans
    ELSE LET key == Head(triples)[1]
             locale == Head(triples)[2]
             translation == Head(triples)[3]
             t1 == IF Applies(trans, locs, Head(triples))
                   THEN [trans EXCEPT ![IndexOf(trans, key)] =
                                          UpdateEntry(@, locale, translation)]
                   ELSE trans
         IN UpdateEntries(t1, locs, Tail(triples))

\* modifiedLocales, in the order of first use
RECURSIVE ModifiedLocales(_, _, _)
ModifiedLocales(trans, locs, triples) ==
    IF triples = <<>> THEN <<>>
    ELSE LET rest == ModifiedLocales(trans, locs, SubSeq(triples, 1, Len(triples) - 1))
             t == triples[Len(triples)]
         IN IF Applies(trans, locs, t) THEN AddOnce(rest, t[2]) ELSE rest

\* updatedCount
UpdatedCount(trans, locs, triples) ==
    Cardinality({i \in DOMAIN triples : Applies(trans, locs, triples[i])})

UpdateOutcome(trans, locs, d, status, updates) ==
    LET triples == Triples(updates)
        t1 == UpdateEntries(trans, locs, triples)
        modifiedLocales == ModifiedLocales(trans, locs, triples)
        saved == IF modifiedLocales # <<>>
                 THEN saveTranslationsToJsonForLocales(modifiedLocales, t1, locs, d, status)
                 ELSE NotSaved(d, status)
    IN Outcome(t1, locs, saved,
               IF saved.ok THEN Returned(TRUE, UpdatedCount(trans, locs, triples), <<>>)
                           ELSE Returned(FALSE, 0, <<>>))

updateTranslations(updates) ==
    /\ phase = "ready"
    /\ nOps < MaxOps
    /\ \E o \in {UpdateOutcome(translations, locales, docs, statusDoc, updates)} :
         Finish("update", updates, o)

----------------------------------------------------------------------------
(* markChecked *)

\* keys is one key or a list of keys
KeyLists ==
    {<<>>} \cup {<<k>> : k \in Keys} \cup {<<k1, k2>> : k1 \in Keys, k2 \in Keys}
MarkInputs ==
    {[one |-> TRUE, key |-> k] : k \in Keys} \cup {[one |-> FALSE, list |-> ks] : ks \in KeyLists}

KeyList(keys) == IF keys.one THEN <<keys.key>> ELSE keys.list

MarkEntries(trans, keyList) ==
    [i \in DOMAIN trans |->
        IF trans[i].key \in Range(keyList) THEN [trans[i] EXCEPT !.isChecked = TRUE]
                                           ELSE trans[i]]

\* Variant that counts every listed key, known or not
ListedCount(trans, keyList) == Len(keyList)

\* markedCount
MarkedCount(trans, keyList) ==
    Cardinality({i \in DOMAIN keyList : Has(trans, keyList[i])})

MarkOutcome(trans, locs, d, status, keys) ==
    LET keyList == KeyList(keys)
        t1 == MarkEntries(trans, keyList)
    IN IF disk = "status"       \* saveCheckedStatus rethrows, markChecked has no catch
       THEN Outcome(t1, locs, [NotSaved(d, status) EXCEPT !.ok = FALSE, !.io = TRUE], Thrown)
       ELSE Outcome(t1, locs,
               [ok |-> TRUE, docs |-> d, written |-> {}, status |-> CheckedStatus(t1),
                statusWritten |-> TRUE, io |-> FALSE],
               Returned(TRUE, MarkedCount(trans, keyList), <<>>))

markChecked(keys) ==
    /\ phase = "ready"
    /\ nOps < MaxOps
    /\ \E o \in {MarkOutcome(translations, locales, docs, statusDoc, keys)} :
         Finish("markChecked", keys, o)

----------------------------------------------------------------------------
(* addTranslations *)

RECURSIVE InsertLocale(_, _)
InsertLocale(x, sorted) ==
    IF sorted = <<>> THEN <<x>>
    ELSE IF StringLess(x, Head(sorted)) THEN <<x>> \o sorted
    ELSE <<Head(sorted)>> \o InsertLocale(x, Tail(sorted))

\* Array.prototype.sort() without a comparator: by UTF-16 code units
RECURSIVE SortLocales(_)
SortLocales(locs) ==
    IF locs = <<>> THEN <<>>
    ELSE InsertLocale(locs[Len(locs)], SortLocales(SubSeq(locs, 1, Len(locs) - 1)))

\* The inner loop of addTranslations: the (locale, text) pairs of one key
RECURSIVE AddPairs(_, _, _)
AddPairs(m, key, lts) ==
    IF lts = <<>> THEN m
    ELSE LET locale == Head(lts)[1]
             translation == Head(lts)[2]
             locs1 == IF locale \notin Range(m.locs)
                      THEN SortLocales(Append(m.locs, locale))
                      ELSE m.locs
             t1 == [m.trans EXCEPT ![IndexOf(m.trans, key)].translations =
                                       SetProp(@, locale,
                                               processedTranslation(translation, locale))]
         IN AddPairs([trans |-> t1, locs |-> locs1, addedKeys |-> m.addedKeys,
                      addedLocales |-> AddOnce(m.addedLocales, locale)],
                     key, Tail(lts))

\* Variant that creates the entry already reviewed
NewEntryChecked(key) == [key |-> key, isChecked |-> TRUE, translations |-> EmptyMap]

\* this.translations.set(key, { isChecked: false, translations: {} })
NewEntry(key) == [key |-> key, isChecked |-> FALSE, translations |-> EmptyMap]

\* The outer loop of addTranslations: creates the entry of a new key
RECURSIVE AddEntries(_, _)
AddEntries(m, newTranslations) ==
    IF newTranslations = <<>> THEN m
    ELSE LET key == Head(newTranslations)[1]
             m1 == IF ~Has(m.trans, key)
                   THEN [m EXCEPT !.trans = Append(@, NewEntry(key)),
                                  !.addedKeys = @ + 1]
                   ELSE m
         IN AddEntries(AddPairs(m1, key, Head(newTranslations)[2]), Tail(newTranslations))

AddOutcome(trans, locs, d, status, newTranslations) ==
    LET m == AddEntries([trans |-> trans, locs |-> locs, addedKeys |-> 0,
                         addedLocales |-> <<>>], newTranslations)
        saved == IF m.addedLocales # <<>>
                 THEN saveTranslationsToJson(m.trans, m.locs, d, status)
                 ELSE NotSaved(d, status)
    IN Outcome(m.trans, m.locs, saved,
               IF saved.ok THEN Returned(TRUE, m.addedKeys, m.addedLocales)
                           ELSE Returned(FALSE, 0, <<>>))

addTranslations(newTranslations) ==
    /\ phase = "ready"
    /\ nOps < MaxOps
    /\ \E o \in {AddOutcome(translations, locales, docs, statusDoc, newTranslations)} :
         Finish("add", newTranslations, o)

----------------------------------------------------------------------------
(* deleteKeysByPrefix *)

Prefixes == {<<>>, <<"a">>, <<"a", ".">>, <<"c">>}

\* The locales argument: omitted (null) or a list
LocaleArgs ==
    {[given |-> FALSE, list |-> <<>>]}
    \cup {[given |-> TRUE, list |-> ls] :
            ls \in {<<>>, <<Lpl>>, <<Lplpl>>, <<Lpl, Lplpl>>, <<Lplpl, Lpl>>}}

\* !!value
Truthy(value) == ~Falsy(value)

\* Variant that removes the entry's value under every locale, listed or not
DeleteEveryLocale(m, list) ==
    [translations |-> EmptyMap,
     affected |-> IF list = <<>> THEN m.affected ELSE AddOnce(m.affected, Head(list)),
     count |-> m.count + Cardinality(DOMAIN m.translations)]

\* Variant that counts one deletion per listed locale, removed or not
RECURSIVE DeleteLocalesCountingListed(_, _)
DeleteLocalesCountingListed(m, list) ==
    IF list = <<>> THEN m
    ELSE LET locale == Head(list)
         IN DeleteLocalesCountingListed(
                [translations |-> IF Truthy(Prop(m.translations, locale))
                                  THEN DeleteProp(m.translations, locale)
                                  ELSE m.translations,
                 affected |-> AddOnce(m.affected, locale),
                 count |-> m.count + 1], Tail(list))

\* for (const locale of locales): delete the entry's value when it is truthy
RECURSIVE DeleteLocales(_, _)
DeleteLocales(m, list) ==
    IF list = <<>> THEN m
    ELSE LET locale == Head(list)
         IN IF Truthy(Prop(m.translations, locale))
            THEN DeleteLocales([translations |-> DeleteProp(m.translations, locale),
                                affected |-> AddOnce(m.affected, locale),
                                count |-> m.count + 1], Tail(list))
            ELSE DeleteLocales(m, Tail(list))

\* The locale-scoped loop over the entries; rest is what is left to visit
RECURSIVE DeleteScoped(_, _, _, _)
DeleteScoped(m, rest, prefix, list) ==
    IF rest = <<>> THEN m
    ELSE LET data == Head(rest)
         IN IF ~StartsWith(data.key, prefix)
            THEN DeleteScoped([m EXCEPT !.trans = Append(@, data)], Tail(rest), prefix, list)
            ELSE LET r == DeleteLocales([translations |-> data.translations,
                                         affected |-> m.affected, count |-> m.count], list)
                     kept == IF DOMAIN r.translations = {} THEN m.trans
                             ELSE Append(m.trans,
                                         [data EXCEPT !.translations = r.translations])
                 IN DeleteScoped([trans |-> kept, affected |-> r.affected,
                                  count |-> r.count], Tail(rest), prefix, list)

\* Variant that removes only the entry whose key is the prefix itself
DeleteExact(trans, prefix) ==
    LET F[n \in 0..Len(trans)] ==
            IF n = 0 THEN <<>>
            ELSE IF trans[n].key = prefix THEN F[n - 1]
            ELSE Append(F[n - 1], trans[n])
    IN F[Len(trans)]

\* The whole-key branch: every entry whose key starts with the prefix goes
DeleteWhole(trans, prefix) ==
    LET F[n \in 0..Len(trans)] ==
            IF n = 0 THEN <<>>
            ELSE IF StartsWith(trans[n].key, prefix) THEN F[n - 1]
            ELSE Append(F[n - 1], trans[n])
    IN F[Len(trans)]

\* The body after the argument check: the deletions, then the save
DeleteValid(trans, locs, d, status, prefix, localeArg) ==
         LET scoped == localeArg.given /\ Len(localeArg.list) > 0
             m == IF scoped
                  THEN DeleteScoped([trans |-> <<>>, affected |-> <<>>, count |-> 0],
                                    trans, prefix, localeArg.list)
                  ELSE [trans |-> DeleteWhole(trans, prefix), affected |-> <<>>,
                        count |-> Len(trans) - Len(DeleteWhole(trans, prefix))]
             saved == IF m.count > 0
                      THEN (IF m.affected # <<>>
                            THEN saveTranslationsToJsonForLocales(m.affected, m.trans,
                                                                  locs, d, status)
                            ELSE saveTranslationsToJson(m.trans, locs, d, status))
                      ELSE NotSaved(d, status)
         IN Outcome(m.trans, locs, saved,
                    IF saved.ok THEN Returned(TRUE, m.count, <<>>) ELSE Thrown)

\* Variant without the argument check
DeleteUnvalidated(trans, locs, d, status, prefix, localeArg) ==
    DeleteValid(trans, locs, d, status, prefix, localeArg)

\* if (!prefix) throw new Error('Prefix is required')
DeleteOutcome(trans, locs, d, status, prefix, localeArg) ==
    IF prefix = <<>> THEN Outcome(trans, locs, NotSaved(d, status), Thrown)
    ELSE DeleteValid(trans, locs, d, status, prefix, localeArg)

deleteKeysByPrefix(prefix, localeArg) ==
    /\ phase = "ready"
    /\ nOps < MaxOps
    /\ \E o \in {DeleteOutcome(translations, locales, docs, statusDoc, prefix, localeArg)} :
         Finish("delete", <<prefix, localeArg>>, o)

----------------------------------------------------------------------------
(* Read-only views *)

MaxPage == 3        \* highest page asked for
NegPages == 2       \* the lowest page asked for is -NegPages
MaxPageSize == 2    \* page sizes 1..MaxPageSize
MaxLimit == 3       \* limits 0..MaxLimit
Pages == (0 - NegPages)..MaxPage
PageSizes == 1..MaxPageSize
Limits == 0..MaxLimit
DefaultLimit == 10  \* args.n || 10

\* for (const locale of this.locales): !value || value === ''
MissingLocales(data, locs) ==
    SelectSeq(locs, LAMBDA l : Falsy(Prop(data.translations, l)))

\* The list of entries with a missing locale, in the catalog's order
AllMissingKeys(trans, locs) ==
    LET F[n \in 0..Len(trans)] ==
            IF n = 0 THEN <<>>
            ELSE IF Len(MissingLocales(trans[n], locs)) > 0
                 THEN Append(F[n - 1],
                             [key |-> trans[n].key,
                              missingLocales |-> MissingLocales(trans[n], locs),
                              existingTranslations |-> trans[n].translations])
                 ELSE F[n - 1]
    IN F[Len(trans)]

\* The list of entries whose key starts with the prefix, in the catalog's order
AllResults(trans, keyPrefix) ==
    LET F[n \in 0..Len(trans)] ==
            IF n = 0 THEN <<>>
            ELSE IF StartsWith(trans[n].key, keyPrefix)
                 THEN Append(F[n - 1], [key |-> trans[n].key,
                                        translations |-> trans[n].translations])
                 ELSE F[n - 1]
    IN F[Len(trans)]

\* Math.ceil(n / s) for n >= 0 and s >= 1
Ceil(n, s) == (n + s - 1) \div s

\* Variant of Array.prototype.slice that takes the element at end as well
sliceInclusive(seq, start, end) ==
    LET rel(i) == IF i < 0 THEN (IF Len(seq) + i > 0 THEN Len(seq) + i ELSE 0)
                  ELSE (IF i < Len(seq) THEN i ELSE Len(seq))
    IN SubSeq(seq, rel(start) + 1, IF rel(end) < Len(seq) THEN rel(end) + 1 ELSE Len(seq))

\* Array.prototype.slice(start, end): a negative index counts from the end,
\* both are clamped to 0..length, and the result is empty when start >= end
slice(seq, start, end) ==
    LET rel(i) == IF i < 0 THEN (IF Len(seq) + i > 0 THEN Len(seq) + i ELSE 0)
                  ELSE (IF i < Len(seq) THEN i ELSE Len(seq))
    IN SubSeq(seq, rel(start) + 1, rel(end))

\* totalCount, totalPages, startIndex, endIndex and the slice
Paginate(all, page, pageSize) ==
    [count |-> Len(all),
     totalPages |-> Ceil(Len(all), pageSize),
     currentPage |-> page,
     pageSize |-> pageSize,
     keys |-> slice(all, (page - 1) * pageSize, (page - 1) * pageSize + pageSize)]

\* getMissingTranslationKeys(page, pageSize)
getMissingTranslationKeys(trans, locs, page, pageSize) ==
    Paginate(AllMissingKeys(trans, locs), page, pageSize)

\* getTranslationByKeyPrefix(keyPrefix, page, pageSize); the members of the
\* keys object are kept as the list of the pairs they were assigned from
getTranslationByKeyPrefix(trans, keyPrefix, page, pageSize) ==
    Paginate(AllResults(trans, keyPrefix), page, pageSize)

\* getCheckedKeys()
getCheckedKeys(trans) ==
    LET F[n \in 0..Len(trans)] ==
            IF n = 0 THEN <<>>
            ELSE IF trans[n].isChecked THEN Append(F[n - 1], trans[n].key)
            ELSE F[n - 1]
    IN F[Len(trans)]

\* getMessagesToCheck(n): the loop adds an unchecked entry, then tests the
\* count against n
RECURSIVE MessagesToCheck(_, _, _)
MessagesToCheck(rest, n, out) ==
    IF rest = <<>> THEN out
    ELSE IF ~Head(rest).isChecked
         THEN LET added == Append(out, [key |-> Head(rest).key,
                                        translations |-> Head(rest).translations])
              IN IF Len(added) >= n THEN added
                 ELSE MessagesToCheck(Tail(rest), n, added)
         ELSE MessagesToCheck(Tail(rest), n, out)

getMessagesToCheck(trans, n) == MessagesToCheck(trans, n, <<>>)

\* The reply of a read-only tool: nothing changes, nothing is written
View(count, list, view) ==
    Outcome(translations, locales, NotSaved(docs, statusDoc),
            [success |-> TRUE, threw |-> FALSE, count |-> count, list |-> list,
             view |-> view])

get_missing_translation_keys(page, pageSize) ==
    /\ phase = "ready"
    /\ nOps < MaxOps
    /\ \E r \in {getMissingTranslationKeys(translations, locales, page, pageSize)} :
         Finish("getMissing", <<page, pageSize>>, View(r.count, r.keys, r))

get_translation_by_key_prefix(keyPrefix, page, pageSize) ==
    /\ phase = "ready"
    /\ nOps < MaxOps
    /\ \E r \in {getTranslationByKeyPrefix(translations, keyPrefix, page, pageSize)} :
         Finish("getByPrefix", <<keyPrefix, page, pageSize>>, View(r.count, r.keys, r))

\* translationManager.getMessagesToCheck(args.n || 10)
get_messages_to_check(n) ==
    /\ phase = "ready"
    /\ nOps < MaxOps
    /\ \E r \in {getMessagesToCheck(translations, IF n = 0 THEN DefaultLimit ELSE n)} :
         Finish("getMessagesToCheck", <<n>>, View(Len(r), r, r))

\* Variant of getTranslationStatus() that counts every missing value
StatusPerValue(trans, locs) ==
    [total |-> Len(trans),
     missingTranslations |->
         Cardinality({il \in (DOMAIN trans) \X Range(locs) :
                        Falsy(Prop(trans[il[1]].translations, il[2]))}),
     waitingForCheck |-> Cardinality({i \in DOMAIN trans : ~trans[i].isChecked})]

\* getTranslationStatus()
getTranslationStatus(trans, locs) ==
    [total |-> Len(trans),
     missingTranslations |->
         Cardinality({i \in DOMAIN trans :
                        \E l \in Range(locs) : Falsy(Prop(trans[i].translations, l))}),
     waitingForCheck |-> Cardinality({i \in DOMAIN trans : ~trans[i].isChecked})]

get_translation_status ==
    /\ phase = "ready"
    /\ nOps < MaxOps
    /\ \E r \in {getTranslationStatus(translations, locales)} :
         Finish("getStatus", <<>>, View(r.total, <<>>, r))

----------------------------------------------------------------------------
(* The system *)

Next ==
    \/ initialize
    \/ reloadCallback
    \/ externalEdit
    \/ \E updates \in Batches : updateTranslations(updates)
    \/ \E keys \in MarkInputs : markChecked(keys)
    \/ \E newTranslations \in Batches : addTranslations(newTranslations)
    \/ \E prefix \in Prefixes, localeArg \in LocaleArgs : deleteKeysByPrefix(prefix, localeArg)
    \/ \E page \in Pages, pageSize \in PageSizes : get_missing_translation_keys(page, pageSize)
    \/ \E keyPrefix \in Prefixes, page \in Pages, pageSize \in PageSizes :
            get_translation_by_key_prefix(keyPrefix, page, pageSize)
    \/ \E n \in Limits : get_messages_to_check(n)
    \/ get_translation_status
    \/ load_from_json
    \/ reinitialize

Spec == Init /\ [][Next]_vars

\* Loading and reloading documents that hold array leaves
ArrayInit ==
    /\ translations = <<>>
    /\ locales = <<>>
    /\ previousState = NoFile
    /\ hasLoadedInitialCheck = FALSE
    /\ reloadTimer = FALSE
    /\ phase = "uninit"
    /\ docs \in [Locales -> ArrayDocs \cup {Absent}]
    /\ statusDoc \in InitialStatusDocs
    /\ snapshot = NoFile
    /\ last = Step("none", <<>>, NoBefore, NoResult, {}, FALSE)
    /\ nOps = 0
    /\ nEdits = 0
    /\ disk = "ok"
    /\ watch = NoWatch

ArrayNext ==
    \/ initialize
    \/ reloadCallback
    \/ arrayEdit
    \/ load_from_json

ArraySpec == ArrayInit /\ [][ArrayNext]_vars

----------------------------------------------------------------------------
(* The debounced watcher, with time *)

Window == 500       \* setTimeout(..., 500)
Tick == 250         \* the clock advances by this much
MaxTime == 1500     \* no notification after this time
MaxNotes == 3       \* notifications per behaviour

\* Variant of the callback that does not clear the pending timer
RestartKeepingOld(w) ==
    [w EXCEPT !.pending = @ \cup {[id |-> w.notes + 1, due |-> w.now + Window]},
              !.handle = w.notes + 1]

\* Variant of the callback that sets a timer only when none is recorded
RestartOnce(w) ==
    IF w.handle # 0 THEN [w EXCEPT !.pending = {t \in @ : t.id # w.handle}]
    ELSE [w EXCEPT !.pending = @ \cup {[id |-> w.notes + 1, due |-> w.now + Window]},
                   !.handle = w.notes + 1]

\* if (this.reloadTimer) clearTimeout(this.reloadTimer);
\* this.reloadTimer = setTimeout(..., 500)
Restart(w) ==
    [w EXCEPT !.pending = {t \in @ : t.id # w.handle}
                            \cup {[id |-> w.notes + 1, due |-> w.now + Window]},
              !.handle = w.notes + 1]

\* The watch callback runs for a qualifying file name
notification ==
    /\ phase = "ready"
    /\ watch.notes < MaxNotes
    /\ watch.now <= MaxTime
    /\ watch' = [Restart(watch) EXCEPT !.notes = @ + 1,
                                       !.unserved = @ + 1,
                                       !.lastNote = watch.now,
                                       !.burstStart = IF watch.unserved = 0
                                                      THEN watch.now ELSE @]
    /\ reloadTimer' = TRUE
    /\ last' = Step("notify", <<>>, NoBefore, NoResult, {}, FALSE)
    /\ UNCHANGED <<translations, locales, previousState, hasLoadedInitialCheck,
                   phase, docs, statusDoc, snapshot, nOps, nEdits, disk>>

\* Time passes; a timer that is due may still run late
tick ==
    /\ phase = "ready"
    /\ \/ watch.now < MaxTime
       \/ \E t \in watch.pending : t.due > watch.now
    /\ watch' = [watch EXCEPT !.now = @ + Tick]
    /\ UNCHANGED <<translations, locales, previousState, hasLoadedInitialCheck,
                   reloadTimer, phase, docs, statusDoc, snapshot, last, nOps, nEdits,
                   disk>>

\* A timer that is due runs its callback: the reload
timerFires ==
    /\ phase = "ready"
    /\ \E t \in watch.pending :
         /\ t.due <= watch.now
         /\ watch' = [watch EXCEPT !.pending = @ \ {t},
                                   !.served = watch.unserved,
                                   !.unserved = 0,
                                   !.reloads = @ + 1]
         /\ reloadTimer' = (watch.pending \ {t} # {})
    /\ \E files \in {Listing(docs)} :
         /\ Reload(files)
         /\ last' = Step("reload", <<>>, Before, NoResult, {}, FALSE)
    /\ UNCHANGED <<hasLoadedInitialCheck, phase, docs, statusDoc, nOps, nEdits, disk>>

WatcherNext ==
    \/ initialize
    \/ notification
    \/ tick
    \/ timerFires

\* One text document or none per locale
WatcherInit ==
    /\ translations = <<>>
    /\ locales = <<>>
    /\ previousState = NoFile
    /\ hasLoadedInitialCheck = FALSE
    /\ reloadTimer = FALSE
    /\ phase = "uninit"
    /\ docs \in [Locales -> {Obj1(<<"a">>, Twx), Absent}]
    /\ statusDoc \in InitialStatusDocs
    /\ snapshot = NoFile
    /\ last = Step("none", <<>>, NoBefore, NoResult, {}, FALSE)
    /\ nOps = 0
    /\ nEdits = 0
    /\ disk = "ok"
    /\ watch = NoWatch

\* The event loop runs a due timer, and time passes
WatcherSpec ==
    WatcherInit /\ [][WatcherNext]_vars /\ WF_vars(tick) /\ WF_vars(timerFires)

\* The same system on a disk that rejects the writes of the locale documents,
\* or those of the status document
FailInit ==
    /\ translations = <<>>
    /\ locales = <<>>
    /\ previousState = NoFile
    /\ hasLoadedInitialCheck = FALSE
    /\ reloadTimer = FALSE
    /\ phase = "uninit"
    /\ docs \in [Locales -> ExternalDocs \cup {Absent}]
    /\ statusDoc \in InitialStatusDocs
    /\ snapshot = NoFile
    /\ last = Step("none", <<>>, NoBefore, NoResult, {}, FALSE)
    /\ nOps = 0
    /\ nEdits = 0
    /\ disk \in {"docs", "status"}
    /\ watch = NoWatch

FailSpec == FailInit /\ [][Next]_vars

----------------------------------------------------------------------------
(* updateTranslations across the suspension points of its save: the call   *)
(* runs up to its first await, each fs.writeFile of the save loop is a     *)
(* step of its own, and the callback of the reload timer may run between   *)
(* two of them.  While the call is in flight phase is "saving" and last    *)
(* is the call so far: last.op = "updating", last.result.count is          *)
(* updatedCount and last.result.list the locales the save loop has yet to  *)
(* visit.                                                                  *)

\* updateTranslations up to its first await: the in-memory loop, and the
\* return when no locale was modified
updateBegins ==
    /\ phase = "ready"
    /\ nOps < MaxOps
    /\ \E updates \in Batches :
         LET triples == Triples(updates)
             modifiedLocales == ModifiedLocales(translations, locales, triples)
             updatedCount == UpdatedCount(translations, locales, triples)
         IN /\ translations' = UpdateEntries(translations, locales, triples)
            /\ IF modifiedLocales = <<>>
               THEN /\ phase' = "ready"
                    /\ last' = Step("update", updates, Before,
                                    [io |-> FALSE] @@ Returned(TRUE, updatedCount, <<>>),
                                    {}, FALSE)
               ELSE /\ phase' = "saving"
                    /\ last' = Step("updating", updates, Before,
                                    [io |-> FALSE]
                                        @@ Returned(FALSE, updatedCount, modifiedLocales),
                                    {}, FALSE)
    /\ nOps' = nOps + 1
    /\ UNCHANGED <<locales, previousState, hasLoadedInitialCheck, reloadTimer, docs,
                   statusDoc, snapshot, nEdits, disk, watch>>

\* One turn of the save loop: the next locale is skipped when this.locales
\* does not hold it, otherwise its pairs are collected from the catalog as
\* it is now and its document is written; the watcher sees the write.  An
\* exception of unflattenJson ends the call with a failure
writeLocale ==
    /\ phase = "saving"
    /\ last.result.list # <<>>
    /\ LET locale == Head(last.result.list)
           nestedData == unflattenJson(FlatDataFor(translations, locale))
       IN IF locale \notin Range(locales)
          THEN /\ last' = [last EXCEPT !.result.list = Tail(@)]
               /\ UNCHANGED <<docs, reloadTimer, phase>>
          ELSE IF nestedData.t = "throw"
          THEN /\ last' = [last EXCEPT !.op = "update",
                                       !.result = [io |-> FALSE] @@ Returned(FALSE, 0, <<>>)]
               /\ phase' = "ready"
               /\ UNCHANGED <<docs, reloadTimer>>
          ELSE /\ docs' = [docs EXCEPT ![locale] = nestedData]
               /\ last' = [last EXCEPT !.result.list = Tail(@),
                                       !.written = @ \cup {locale}]
               /\ reloadTimer' = TRUE
               /\ UNCHANGED phase
    /\ UNCHANGED <<translations, locales, previousState, hasLoadedInitialCheck,
                   statusDoc, snapshot, nOps, nEdits, disk, watch>>

\* The end of the save: saveCheckedStatus, then updateTranslations returns
\* { success: true, updatedKeys }
saveEnds ==
    /\ phase = "saving"
    /\ last.result.list = <<>>
    /\ statusDoc' = CheckedStatus(translations)
    /\ last' = [last EXCEPT !.op = "update",
                            !.result = [io |-> FALSE]
                                           @@ Returned(TRUE, last.result.count, <<>>),
                            !.statusWritten = TRUE]
    /\ phase' = "ready"
    /\ UNCHANGED <<translations, locales, previousState, hasLoadedInitialCheck,
                   reloadTimer, docs, snapshot, nOps, nEdits, disk, watch>>

\* The callback of the reload timer runs while the save is suspended
reloadInsideSave ==
    /\ phase = "saving"
    /\ reloadTimer
    /\ \E files \in {Listing(docs)} : Reload(files)
    /\ reloadTimer' = FALSE
    /\ UNCHANGED <<hasLoadedInitialCheck, phase, docs, statusDoc, last, nOps, nEdits,
                   disk, watch>>

AsyncNext ==
    \/ initialize
    \/ externalEdit
    \/ reloadCallback
    \/ updateBegins
    \/ writeLocale
    \/ saveEnds
    \/ reloadInsideSave

AsyncSpec == Init /\ [][AsyncNext]_vars

----------------------------------------------------------------------------
(* The tree codec on its own: a tree, or a list of (dottedKey, value)      *)
(* pairs, is drawn, and flattenJson / unflattenJson are applied to it.     *)
(* last.args is the input and last.result.value what the codec returned.   *)

\* Names of members: plain ones, and one that holds a '.'
SegmentNames == {<<"a">>, <<"b">>, <<"a", ".", "b">>}

\* Leaves: a text, the empty text (falsy), an array
Leaves == {Twx, TEmpty, Ay}

\* Values of a member: a leaf, an empty object, or an object of one member
MemberValues ==
    Leaves \cup {EmptyObject}
        \cup {Obj1(n, v) : n \in SegmentNames, v \in Leaves \cup {EmptyObject}}

\* Trees of at most two members
Trees ==
    {EmptyObject}
        \cup {Obj1(n, v) : n \in SegmentNames, v \in MemberValues}
        \cup UNION {{Obj2(n1, v1, n2, v2) : n2 \in SegmentNames \ {n1},
                                            v1 \in MemberValues, v2 \in MemberValues} :
                    n1 \in SegmentNames}

\* Dotted keys of the pair lists
DottedKeys == {<<"a">>, <<"b">>, <<"a", ".", "b">>, <<"a", ".", "c">>, <<"b", ".", "a">>}

MaxPairs == 3    \* pairs in a list

\* Lists of at most MaxPairs pairs with distinct keys, in every order
PairLists ==
    UNION {{q \in [1..n -> DottedKeys \X Leaves] :
               \A i, j \in 1..n : i # j => q[i][1] # q[j][1]} : n \in 0..MaxPairs}

CodecInit ==
    /\ translations = <<>>
    /\ locales = <<>>
    /\ previousState = NoFile
    /\ hasLoadedInitialCheck = FALSE
    /\ reloadTimer = FALSE
    /\ phase = "uninit"
    /\ docs = [l \in Locales |-> Absent]
    /\ statusDoc = NoFile
    /\ snapshot = NoFile
    /\ \/ \E tree \in Trees :
            last = Step("tree", tree, NoBefore, NoResult, {}, FALSE)
       \/ \E flatData \in PairLists :
            last = Step("pairs", flatData, NoBefore, NoResult, {}, FALSE)
    /\ nOps = 0
    /\ nEdits = 0
    /\ disk = "ok"
    /\ watch = NoWatch

\* unflattenJson(flattenJson(tree))
roundTrip ==
    /\ last.op = "tree"
    /\ last' = [last EXCEPT !.op = "roundTrip",
                            !.result = [value |-> unflattenJson(flattenJson(last.args))]]
    /\ UNCHANGED <<translations, locales, previousState, hasLoadedInitialCheck,
                   reloadTimer, phase, docs, statusDoc, snapshot, nOps, nEdits, disk,
                   watch>>

\* unflattenJson(flatData)
unflatten ==
    /\ last.op = "pairs"
    /\ last' = [last EXCEPT !.op = "unflatten",
                            !.result = [value |-> unflattenJson(last.args)]]
    /\ UNCHANGED <<translations, locales, previousState, hasLoadedInitialCheck,
                   reloadTimer, phase, docs, statusDoc, snapshot, nOps, nEdits, disk,
                   watch>>

CodecNext == roundTrip \/ unflatten

CodecSpec == CodecInit /\ [][CodecNext]_vars

----------------------------------------------------------------------------
(* The manager over several calls and several runs of the process: the    *)
(* documents, the status document and the snapshot stay on disk when the   *)
(* process ends, everything in memory starts again from the constructor.   *)

SessionOps == 2    \* tool calls per behaviour

\* Documents of one key
SessionDocs == {Obj1(<<"a">>, Twx), Obj1(<<"a">>, Ty)}

\* updateTranslations({ a: { locale: "w x" } })
SessionBatches == {<< <<Ka, << <<l, Twx>> >> >> >> : l \in Locales}

SessionInit ==
    /\ translations = <<>>
    /\ locales = <<>>
    /\ previousState = NoFile
    /\ hasLoadedInitialCheck = FALSE
    /\ reloadTimer = FALSE
    /\ phase = "uninit"
    /\ docs \in [Locales -> SessionDocs \cup {Absent}]
    /\ statusDoc = NoFile
    /\ snapshot = NoFile
    /\ last = Step("none", <<>>, NoBefore, NoResult, {}, FALSE)
    /\ nOps = 0
    /\ nEdits = 0
    /\ disk = "ok"
    /\ watch = NoWatch

sessionEdit == Edit(SessionDocs)

\* An editor writes or removes a locale document while no process runs
offlineEdit ==
    /\ phase = "uninit"
    /\ nEdits < MaxEdits
    /\ \E l \in Locales, d \in SessionDocs \cup {Absent} :
         /\ d # docs[l]
         /\ docs' = [docs EXCEPT ![l] = d]
         /\ last' = Step("edit", <<l>>, NoBefore, NoResult, {}, FALSE)
    /\ nEdits' = nEdits + 1
    /\ UNCHANGED <<translations, locales, previousState, hasLoadedInitialCheck,
                   reloadTimer, phase, statusDoc, snapshot, nOps, disk, watch>>

sessionUpdate ==
    /\ phase = "ready"
    /\ nOps < SessionOps
    /\ \E updates \in SessionBatches :
         Finish("update", updates,
                UpdateOutcome(translations, locales, docs, statusDoc, updates))

\* markChecked("a")
sessionMark ==
    /\ phase = "ready"
    /\ nOps < SessionOps
    /\ \E keys \in {[one |-> TRUE, key |-> Ka]} :
         Finish("markChecked", keys,
                MarkOutcome(translations, locales, docs, statusDoc, keys))

\* The process ends: the fields and the pending timer are gone, the files
\* stay
stop ==
    /\ phase = "ready"
    /\ translations' = <<>>
    /\ locales' = <<>>
    /\ previousState' = NoFile
    /\ hasLoadedInitialCheck' = FALSE
    /\ reloadTimer' = FALSE
    /\ phase' = "uninit"
    /\ last' = Step("stop", <<>>, Before, NoResult, {}, FALSE)
    /\ UNCHANGED <<docs, statusDoc, snapshot, nOps, nEdits, disk, watch>>

\* The process ends and is started again at once: main() runs initialize on
\* a new TranslationManager over the same files.  last.pre is the memory
\* of the process that ended and last.args the step it had just taken: its
\* operation and the catalog that step started from.
restart ==
    /\ phase = "ready"
    /\ \E files \in {Listing(docs)} :
         LET prev == loadPreviousState(snapshot)
             loaded == LoadFiles(<<>>, files, docs, prev)
         IN /\ previousState' = prev
            /\ locales' = files
            /\ snapshot' = CurrentState(loaded)
            /\ translations' = ApplyCheckedStatus(loaded, statusDoc)
    /\ hasLoadedInitialCheck' = TRUE
    /\ reloadTimer' = FALSE
    /\ last' = Step("restart", [op |-> last.op, translations |-> last.pre.translations],
                    Before, NoResult, {}, FALSE)
    /\ UNCHANGED <<phase, docs, statusDoc, nOps, nEdits, disk, watch>>

SessionNext ==
    \/ initialize
    \/ reloadCallback
    \/ sessionEdit
    \/ offlineEdit
    \/ sessionUpdate
    \/ sessionMark
    \/ stop
    \/ restart

SessionSpec == SessionInit /\ [][SessionNext]_vars

----------------------------------------------------------------------------
(* The reload callback across its suspension points: it reads the          *)
(* snapshot and lists the directory, reads the documents one at a time and *)
(* writes the snapshot, and is suspended at each of these.  watch.running  *)
(* holds the callbacks that have started and not ended, each with the      *)
(* files it has yet to read; watch.reloads counts the callbacks started.   *)

MaxLoads == 2     \* reload callbacks per behaviour
LoadEdits == 2    \* external edits per behaviour

NoLoads == [running |-> {}] @@ NoWatch

LoadInit ==
    /\ translations = <<>>
    /\ locales = <<>>
    /\ previousState = NoFile
    /\ hasLoadedInitialCheck = FALSE
    /\ reloadTimer = FALSE
    /\ phase = "uninit"
    /\ docs \in [Locales -> SessionDocs \cup {Absent}]
    /\ statusDoc \in InitialStatusDocs
    /\ snapshot = NoFile
    /\ last = Step("none", <<>>, NoBefore, NoResult, {}, FALSE)
    /\ nOps = 0
    /\ nEdits = 0
    /\ disk = "ok"
    /\ watch = NoLoads

\* An editor writes or removes a locale document, a reload running or not;
\* the watcher callback (re)starts the reload timer
loadEdit ==
    /\ phase = "ready"
    /\ nEdits < LoadEdits
    /\ \E l \in Locales, d \in SessionDocs \cup {Absent} :
         /\ d # docs[l]
         /\ docs' = [docs EXCEPT ![l] = d]
         /\ last' = Step("edit", <<l>>, NoBefore, NoResult, {}, FALSE)
    /\ reloadTimer' = TRUE
    /\ nEdits' = nEdits + 1
    /\ UNCHANGED <<translations, locales, previousState, hasLoadedInitialCheck,
                   phase, statusDoc, snapshot, nOps, disk, watch>>

\* The timer fires, whatever the earlier callbacks are doing (setTimeout
\* looks at no flag of the manager): loadPreviousState reads the snapshot,
\* loadTranslationsFromJson lists the directory, resets this.locales and
\* runs its first pass
reloadStarts ==
    /\ phase = "ready"
    /\ reloadTimer
    /\ watch.reloads < MaxLoads
    /\ previousState' = loadPreviousState(snapshot)
    /\ locales' = Listing(docs)
    /\ watch' = [watch EXCEPT !.running = @ \cup {[id |-> watch.reloads + 1,
                                                   files |-> Listing(docs)]},
                              !.reloads = @ + 1]
    /\ reloadTimer' = FALSE
    /\ last' = Step("reloadStarts", <<watch.reloads + 1>>, Before, NoResult, {}, FALSE)
    /\ UNCHANGED <<translations, hasLoadedInitialCheck, phase, docs, statusDoc, snapshot,
                   nOps, nEdits, disk>>

\* One turn of the second pass of a callback in flight: the next file is
\* read as it is now and merged against this.previousState
reloadReads ==
    /\ \E r \in watch.running :
         /\ r.files # <<>>
         /\ translations' = LoadFiles(translations, <<Head(r.files)>>, docs, previousState)
         /\ watch' = [watch EXCEPT !.running =
                          (@ \ {r}) \cup {[r EXCEPT !.files = Tail(@)]}]
         /\ last' = Step("reloadReads", <<r.id>>, Before, NoResult, {}, FALSE)
    /\ UNCHANGED <<locales, previousState, hasLoadedInitialCheck, reloadTimer, phase,
                   docs, statusDoc, snapshot, nOps, nEdits, disk>>

\* The end of a callback: saveCurrentState writes the snapshot
reloadEnds ==
    /\ \E r \in watch.running :
         /\ r.files = <<>>
         /\ snapshot' = CurrentState(translations)
         /\ watch' = [watch EXCEPT !.running = @ \ {r}]
         /\ last' = Step("reloadEnds", <<r.id>>, Before, NoResult, {}, FALSE)
    /\ UNCHANGED <<translations, locales, previousState, hasLoadedInitialCheck,
                   reloadTimer, phase, docs, statusDoc, nOps, nEdits, disk>>

LoadNext ==
    \/ initialize
    \/ loadEdit
    \/ reloadStarts
    \/ reloadReads
    \/ reloadEnds

LoadSpec == LoadInit /\ [][LoadNext]_vars

----------------------------------------------------------------------------
(* Properties.  last records the step just taken: its operation, its       *)
(* arguments, the memory and the documents it started from (last.pre),     *)
(* the value it returned and the documents it wrote.                       *)

Wx == Str(<<"w", NBSP, "x">>)

\* The keys of two entry sequences, position by position
SameKeys(t1, t2) ==
    /\ Len(t1) = Len(t2)
    /\ \A i \in DOMAIN t1 : t1[i].key = t2[i].key

\* The (key, locale, text) triples of the last update, and those applied
LastTriples == Triples(last.args)
AppliedTriples ==
    {i \in DOMAIN LastTriples :
        Applies(last.pre.translations, last.pre.locales, LastTriples[i])}
TouchedLocales == {LastTriples[i][2] : i \in AppliedTriples}

\* C1: after an update that returns success, every applied triple
\* (k, l, text) has left translations[k][l] equal to
\* typography(text, languageOf(l)).
C1_UpdateStoresTypography ==
    (last.op = "update" /\ last.result.success) =>
        \A i \in AppliedTriples :
            LET triple == LastTriples[i]
            IN /\ Has(translations, triple[1])
               /\ Prop(Entry(translations, triple[1]).translations, triple[2])
                    = insertNonBreakingSpaces(triple[3], getLanguageFromLocale(triple[2]))

\* A successful update of "w x" under a Polish locale, stored as "w<nbsp>x"
\* over a different earlier value
C1_Witness ==
    /\ last.op = "update"
    /\ last.result.success
    /\ \E i \in AppliedTriples :
         LET triple == LastTriples[i]
         IN /\ triple[3] = Twx
            /\ Prop(Entry(translations, triple[1]).translations, triple[2]) = Wx
            /\ Prop(Entry(last.pre.translations, triple[1]).translations, triple[2]) # Wx

\* C2: update rewrites exactly the locale documents of the touched locales
\* (those of an applied triple), and the document of every other locale is
\* what it was before the call.
C2_UpdateRewritesTouched ==
    last.op = "update" =>
        /\ last.written = TouchedLocales
        /\ \A l \in Locales \ TouchedLocales : docs[l] = last.pre.docs[l]

\* An update applied a triple under pl and wrote no document: the catalog
\* holds the new value, pl.json is what it was, the call returned a failure
C2_TouchedNotRewritten ==
    /\ last.op = "update"
    /\ ~last.result.success
    /\ TouchedLocales = {Lpl}
    /\ last.written = {}
    /\ docs = last.pre.docs
    /\ translations # last.pre.translations

\* What update does guarantee for the documents: it writes none but those of
\* the touched locales, leaves every other document as it was, and has
\* written every touched one when it returns success
UpdateWritesOnlyTouched ==
    last.op = "update" =>
        /\ \A l \in Locales \ TouchedLocales :
             l \notin last.written /\ docs[l] = last.pre.docs[l]
        /\ last.written \subseteq TouchedLocales
        /\ last.result.success => last.written = TouchedLocales

\* A value no applied triple names is unchanged by the last update, and no
\* key, locale or per-locale value is created for a skipped triple
SkippedChangeNothing ==
    /\ SameKeys(translations, last.pre.translations)
    /\ locales = last.pre.locales
    /\ \A n \in DOMAIN translations :
         /\ DOMAIN translations[n].translations
              = DOMAIN last.pre.translations[n].translations
                \cup {LastTriples[i][2] :
                        i \in {j \in AppliedTriples :
                                 LastTriples[j][1] = translations[n].key}}
         /\ \A l \in DOMAIN translations[n].translations :
              (~\E i \in AppliedTriples : /\ LastTriples[i][1] = translations[n].key
                                          /\ LastTriples[i][2] = l)
              => /\ l \in DOMAIN last.pre.translations[n].translations
                 /\ translations[n].translations[l]
                      = last.pre.translations[n].translations[l]

\* An update in which no triple applies changes nothing, in memory or on disk
NothingAppliedNothingChanged ==
    AppliedTriples = {} =>
        /\ last.result.count = 0
        /\ translations = last.pre.translations
        /\ docs = last.pre.docs
        /\ statusDoc = last.pre.statusDoc
        /\ last.written = {}
        /\ ~last.statusWritten

\* C3: update raises no error for an unknown key or locale; a skipped triple
\* creates no key and no locale and changes no value; the call reports
\* success with updatedKeys = the number of applied (key, locale) triples;
\* and when no triple applies the catalog, the locale documents and the
\* status document are unchanged.
C3_UpdateSkipsUnknown ==
    last.op = "update" =>
        /\ ~last.result.threw
        /\ SkippedChangeNothing
        /\ last.result.success
        /\ last.result.count = Cardinality(AppliedTriples)
        /\ NothingAppliedNothingChanged

\* An update whose triples all name a known key and a known locale returned
\* a failure instead of success with a count
C3_AppliedButFailed ==
    /\ last.op = "update"
    /\ AppliedTriples = DOMAIN LastTriples
    /\ AppliedTriples # {}
    /\ ~last.result.success

\* What update does guarantee for skipped triples: everything C3 states,
\* with the count stated for the calls that return success
UpdateSkipsUnknownWhenSaved ==
    last.op = "update" =>
        /\ ~last.result.threw
        /\ SkippedChangeNothing
        /\ last.result.success => last.result.count = Cardinality(AppliedTriples)
        /\ AppliedTriples = {} => last.result.success
        /\ NothingAppliedNothingChanged

\* An update of one key under two locales of which only one is known:
\* one triple applied, one skipped, updatedKeys = 1
UpdateSkippedOne ==
    /\ last.op = "update"
    /\ last.result.success
    /\ Len(LastTriples) = 2
    /\ Cardinality(AppliedTriples) = 1
    /\ last.result.count = 1
    /\ \E i \in DOMAIN LastTriples :
         /\ i \notin AppliedTriples
         /\ Has(translations, LastTriples[i][1])
         /\ LastTriples[i][2] \notin Range(locales)
         /\ LastTriples[i][2] \notin DOMAIN Entry(translations, LastTriples[i][1]).translations

\* C4: update changes the isChecked flag of no key.
C4_UpdateKeepsChecked ==
    last.op = "update" =>
        /\ SameKeys(translations, last.pre.translations)
        /\ \A n \in DOMAIN translations :
             translations[n].isChecked = last.pre.translations[n].isChecked

\* An update that changed the value of a reviewed key, which is still reviewed
C4_Witness ==
    /\ last.op = "update"
    /\ last.result.success
    /\ \E i \in AppliedTriples :
         LET key == LastTriples[i][1]
         IN /\ Entry(last.pre.translations, key).isChecked
            /\ Entry(translations, key).isChecked
            /\ Entry(translations, key).translations
                 # Entry(last.pre.translations, key).translations

C6_MarkCheckedPersistsStatusOnly ==
    last.op = "markChecked" =>
        /\ SameKeys(translations, last.pre.translations)
        /\ \A n \in DOMAIN translations :
             translations[n].translations = last.pre.translations[n].translations
        /\ locales = last.pre.locales
        /\ docs = last.pre.docs
        /\ last.written = {}
        /\ snapshot = last.pre.snapshot
        /\ last.statusWritten
        /\ statusDoc.present
        /\ DOMAIN statusDoc.checked = KeysOf(translations)
        /\ \A n \in DOMAIN translations :
             statusDoc.checked[translations[n].key] = translations[n].isChecked

\* markChecked marked a key while a locale document exists and the catalog
\* holds an unreviewed key: the status document changed and lists both flags
C6_Witness ==
    /\ last.op = "markChecked"
    /\ last.result.count > 0
    /\ statusDoc # last.pre.statusDoc
    /\ \E l \in Locales : docs[l].t = "obj"
    /\ \E k \in KeysOf(translations) : ~statusDoc.checked[k]
    /\ \E k \in KeysOf(translations) : statusDoc.checked[k]

\* The keys of the last add that the catalog did not hold
NewKeys == {last.args[i][1] : i \in DOMAIN last.args} \ KeysOf(last.pre.translations)

DocKeys(doc) == {pair[1] : pair \in Range(flattenJson(doc))}

\* C8: after add returns success, the status document has been rewritten and
\* every locale of locales has a document on disk that holds every key the
\* catalog has a value for under that locale.
C8_AddPersistsWholeCatalog ==
    (last.op = "add" /\ last.result.success) =>
        /\ last.statusWritten
        /\ \A l \in Range(locales) :
             /\ docs[l].t = "obj"
             /\ \A n \in DOMAIN translations :
                  l \in DOMAIN translations[n].translations
                  => translations[n].key \in DocKeys(docs[l])

\* add({k: {}}) with k new returned success and wrote nothing: the catalog
\* holds k, the status document does not
C8_NewKeyNotPersisted ==
    /\ last.op = "add"
    /\ last.result.success
    /\ NewKeys # {}
    /\ ~last.statusWritten
    /\ last.written = {}
    /\ \E k \in NewKeys : ~(statusDoc.present /\ k \in DOMAIN statusDoc.checked)

\* add stored "" under key a while a.b holds a value for the same locale:
\* the call returned success and the document written has no leaf a
AddDroppedKey ==
    /\ last.op = "add"
    /\ last.result.success
    /\ \E l \in last.written :
         /\ Has(translations, Ka)
         /\ l \in DOMAIN Entry(translations, Ka).translations
         /\ Ka \notin DocKeys(docs[l])

\* C9: locales is sorted ascending and holds no element twice.
C9_LocalesSorted ==
    \A i \in DOMAIN locales, j \in DOMAIN locales :
        i < j => StringLess(locales[i], locales[j])

\* The initial load of a directory holding pl.json and pl-pl.json
C9_ListingOrder ==
    /\ last.op = "initialize"
    /\ locales = <<Lplpl, Lpl>>
    /\ StringLess(Lpl, Lplpl)

\* C10: every locale under which an entry holds a value is an element of
\* locales.
C10_EntryLocalesKnown ==
    \A n \in DOMAIN translations :
        DOMAIN translations[n].translations \subseteq Range(locales)

\* A reload after the only locale document was removed: locales is empty and
\* an entry still holds the value of the removed locale
C10_RemovedLocaleKept ==
    /\ last.op = "reload"
    /\ locales = <<>>
    /\ \E n \in DOMAIN translations : translations[n].translations # EmptyMap

----------------------------------------------------------------------------
(* deleteKeysByPrefix *)

\* The arguments of the last delete
LastPrefix == last.args[1]
LastLocaleArg == last.args[2]
WholeKeyMode == ~LastLocaleArg.given \/ LastLocaleArg.list = <<>>

\* The entries of a sequence whose key does not start with the prefix
RECURSIVE NotMatching(_, _)
NotMatching(trans, prefix) ==
    IF trans = <<>> THEN <<>>
    ELSE (IF StartsWith(Head(trans).key, prefix) THEN <<>> ELSE <<Head(trans)>>)
         \o NotMatching(Tail(trans), prefix)

\* The keys of a locale file that parses
FileKeys(doc) == IF doc.t = "obj" THEN DocKeys(doc) ELSE {}

ScopedMode == LastLocaleArg.given /\ LastLocaleArg.list # <<>>

ValuePairs(trans) ==
    UNION {{<<trans[n].key, l>> : l \in DOMAIN trans[n].translations} : n \in DOMAIN trans}

\* The pairs a locale-scoped delete is asked to remove
ScopedTargets ==
    {kl \in ValuePairs(last.pre.translations) :
        StartsWith(kl[1], LastPrefix) /\ kl[2] \in Range(LastLocaleArg.list)}

\* C13: in a locale-scoped delete every value present under a listed locale
\* of a matching key, the empty string included, is removed and counted, and
\* a matching entry leaves the catalog exactly when no value is left in its
\* map.
C13_ScopedRemovesPresent ==
    (last.op = "delete" /\ LastPrefix # <<>> /\ ScopedMode) =>
        /\ ValuePairs(translations) \cap ScopedTargets = {}
        /\ \A n \in DOMAIN last.pre.translations :
             LET e == last.pre.translations[n]
             IN StartsWith(e.key, LastPrefix) =>
                    (Has(translations, e.key)
                        <=> DOMAIN e.translations \ Range(LastLocaleArg.list) # {})
        /\ last.result.success => last.result.count = Cardinality(ScopedTargets)

\* An empty-string value under a listed locale of a matching key is still
\* there after the call, which reports success
C13_EmptyStringKept ==
    /\ last.op = "delete"
    /\ ScopedMode
    /\ last.result.success
    /\ \E kl \in ScopedTargets :
         /\ Entry(last.pre.translations, kl[1]).translations[kl[2]] = TEmpty
         /\ kl \in ValuePairs(translations)
         /\ Entry(translations, kl[1]).translations[kl[2]] = TEmpty

\* What the code does instead: the truthy values are the ones removed
ScopedRemovesTruthy ==
    (last.op = "delete" /\ LastPrefix # <<>> /\ ScopedMode) =>
        /\ ValuePairs(last.pre.translations) \ ValuePairs(translations)
             = {kl \in ScopedTargets :
                   Truthy(Entry(last.pre.translations, kl[1]).translations[kl[2]])}
        /\ \A n \in DOMAIN last.pre.translations :
             LET e == last.pre.translations[n]
             IN StartsWith(e.key, LastPrefix) =>
                    (Has(translations, e.key)
                        <=> \E l \in DOMAIN e.translations :
                                <<e.key, l>> \in ValuePairs(translations))

\* C14: a delete with an empty prefix raises an error and leaves the catalog,
\* the locale list, every locale document and the status document as they
\* were; nothing is written.
C14_EmptyPrefixRejected ==
    (last.op = "delete" /\ LastPrefix = <<>>) =>
        /\ last.result.threw
        /\ translations = last.pre.translations
        /\ locales = last.pre.locales
        /\ docs = last.pre.docs
        /\ statusDoc = last.pre.statusDoc
        /\ last.written = {}
        /\ ~last.statusWritten

C14_Witness ==
    /\ last.op = "delete"
    /\ LastPrefix = <<>>
    /\ last.result.threw
    /\ translations # <<>>
    /\ \E l \in Range(locales) : FileKeys(docs[l]) # {}

C15_WholeKeyCounted ==
    /\ last.op = "delete"
    /\ WholeKeyMode
    /\ last.result.success
    /\ last.result.count = 1
    /\ Cardinality(ValuePairs(last.pre.translations) \ ValuePairs(translations)) = 2

----------------------------------------------------------------------------
(* Paginated queries *)

\* The entries that miss a value, absent or empty, for a known locale
Incomplete(trans, locs) ==
    SelectSeq(trans, LAMBDA e : \E l \in Range(locs) :
                                   \/ l \notin DOMAIN e.translations
                                   \/ e.translations[l] = TEmpty)

\* The entries whose key starts with the prefix
Prefixed(trans, keyPrefix) == SelectSeq(trans, LAMBDA e : StartsWith(e.key, keyPrefix))

\* Pages 1..n of each query, one after the other
RECURSIVE MissingPages(_, _)
MissingPages(pageSize, n) ==
    IF n = 0 THEN <<>>
    ELSE MissingPages(pageSize, n - 1)
         \o getMissingTranslationKeys(translations, locales, n, pageSize).keys

RECURSIVE PrefixPages(_, _, _)
PrefixPages(keyPrefix, pageSize, n) ==
    IF n = 0 THEN <<>>
    ELSE PrefixPages(keyPrefix, pageSize, n - 1)
         \o getTranslationByKeyPrefix(translations, keyPrefix, n, pageSize).keys

IsCeil(pages, n, pageSize) == pages * pageSize >= n /\ (pages - 1) * pageSize < n

\* items lists the entries of matches, one for one and in their order
SameEntries(items, matches, field) ==
    /\ Len(items) = Len(matches)
    /\ \A i \in DOMAIN items :
         /\ items[i].key = matches[i].key
         /\ items[i][field] = matches[i].translations

LastPage == IF last.op = "getMissing" THEN last.args[1] ELSE last.args[2]

\* C17: a page below 1 or above totalPages of either paginated query is
\* empty, and the reply still carries count and totalPages.
C17_OutOfRangeEmpty ==
    (/\ last.op \in {"getMissing", "getByPrefix"}
     /\ (LastPage < 1 \/ LastPage > last.result.view.totalPages)) =>
        /\ ~last.result.threw
        /\ last.result.list = <<>>
        /\ last.result.view.count
             = Len(IF last.op = "getMissing" THEN Incomplete(translations, locales)
                   ELSE Prefixed(translations, last.args[1]))
        /\ IsCeil(last.result.view.totalPages, last.result.view.count,
                  last.result.view.pageSize)

\* Page -1 of one-entry pages over three incomplete keys holds the second key
C17_NegativePageHasEntries ==
    /\ last.op = "getMissing"
    /\ LastPage < 1
    /\ last.result.list # <<>>

\* What the code does for the other pages out of range: page 0 and the
\* pages above totalPages are empty
PageZeroAndAboveEmpty ==
    (/\ last.op \in {"getMissing", "getByPrefix"}
     /\ (LastPage = 0 \/ LastPage > last.result.view.totalPages)) =>
        last.result.list = <<>>

----------------------------------------------------------------------------
(* Summaries *)

\* C18: in every state the status summary has total = the number of entries,
\* missingTranslations = the number of entries with an absent or empty value
\* for some known locale, which is the count the incomplete-keys query
\* reports, and waitingForCheck = the number of entries not reviewed, so that
\* waitingForCheck plus the number of reviewed keys is total.
C18_StatusSummary ==
    LET status == getTranslationStatus(translations, locales)
    IN /\ status.total = Len(translations)
       /\ status.missingTranslations = Len(Incomplete(translations, locales))
       /\ status.missingTranslations = Len(AllMissingKeys(translations, locales))
       /\ \A pageSize \in PageSizes :
            status.missingTranslations
              = getMissingTranslationKeys(translations, locales, 1, pageSize).count
       /\ status.waitingForCheck = Len(SelectSeq(translations, LAMBDA e : ~e.isChecked))
       /\ status.waitingForCheck + Len(getCheckedKeys(translations)) = status.total
       /\ last.op = "getStatus" => last.result.view = status

\* The summary was asked for over a catalog with a reviewed key, a key not
\* reviewed, a key missing a value and a complete key
C18_Witness ==
    /\ last.op = "getStatus"
    /\ last.result.view.total >= 3
    /\ last.result.view.missingTranslations \in 1..(last.result.view.total - 1)
    /\ last.result.view.waitingForCheck \in 1..(last.result.view.total - 1)

\* The keys of the entries not reviewed, in the catalog's order
Unchecked(trans) == SelectSeq(trans, LAMBDA e : ~e.isChecked)

\* list is made of the first entries not reviewed, limit of them at most
FirstUnchecked(list, limit) ==
    /\ Len(list) <= limit
    /\ Len(list) <= Len(Unchecked(translations))
    /\ \A i \in DOMAIN list :
         /\ list[i].key = Unchecked(translations)[i].key
         /\ list[i].translations = Unchecked(translations)[i].translations

\* C19: for every limit >= 0 the unreviewed-messages query returns at most
\* limit entries, none of them reviewed, and they are the first entries not
\* reviewed in the catalog's order.
C19_AtMostLimit ==
    /\ \A n \in Limits : FirstUnchecked(getMessagesToCheck(translations, n), n)
    /\ last.op = "getMessagesToCheck" => FirstUnchecked(last.result.list, last.args[1])

\* Limit 0 was asked for and entries came back
C19_LimitZeroReturnsEntries ==
    /\ last.op = "getMessagesToCheck"
    /\ last.args[1] = 0
    /\ Len(last.result.list) > 0
    /\ Len(getMessagesToCheck(translations, 0)) = 1

\* What the code does: for a limit of 1 or more the claim holds
AtMostPositiveLimit ==
    /\ \A n \in Limits \ {0} : FirstUnchecked(getMessagesToCheck(translations, n), n)
    /\ (last.op = "getMessagesToCheck" /\ last.args[1] > 0) =>
           FirstUnchecked(last.result.list, last.args[1])

\* Some call returned fewer entries than there are unreviewed ones
LimitCutsList ==
    /\ last.op = "getMessagesToCheck"
    /\ last.args[1] > 0
    /\ Len(last.result.list) = last.args[1]
    /\ Len(Unchecked(translations)) > last.args[1]

----------------------------------------------------------------------------
(* Reload *)

\* The (key, value) pairs a locale document holds, none if it does not parse
FilePairs(doc) == IF doc.t = "obj" THEN Range(flattenJson(doc)) ELSE {}

\* C20: when a snapshot exists and a locale document holds, for a key the
\* snapshot records, a value that is not the snapshot's value for that
\* locale, the key is not reviewed after the reload, whatever its flag was.
C20_ReloadUnchecksChanged ==
    (last.op = "reload" /\ last.pre.snapshot.present) =>
        \A l \in Range(locales) :
            \A kv \in FilePairs(docs[l]) :
                (/\ kv[1] \in DOMAIN last.pre.snapshot.state
                 /\ Prop(last.pre.snapshot.state[kv[1]], l) # kv[2]) =>
                    /\ Has(translations, kv[1])
                    /\ ~Entry(translations, kv[1]).isChecked

\* A reviewed key whose value "w x" an editor replaced by "y": not reviewed
\* after the reload
C20_Witness ==
    /\ last.op = "reload"
    /\ last.pre.snapshot.present
    /\ \E l \in Range(locales) :
         \E kv \in FilePairs(docs[l]) :
            /\ Has(last.pre.translations, kv[1])
            /\ Entry(last.pre.translations, kv[1]).isChecked
            /\ kv[1] \in DOMAIN last.pre.snapshot.state
            /\ Prop(last.pre.snapshot.state[kv[1]], l) = Twx
            /\ kv[2] = Ty
            /\ ~Entry(translations, kv[1]).isChecked
            /\ Entry(translations, kv[1]).translations[l] = Ty

\* The steps that load the documents again on a running manager
Reloaded == last.op \in {"reload", "load", "reinitialize"}

\* Every value the documents hold for the key is the snapshot's value for
\* that locale
SameAsSnapshot(k) ==
    \A l \in Range(locales) :
        \A kv \in FilePairs(docs[l]) :
            kv[1] = k => Prop(last.pre.snapshot.state[k], l) = kv[2]

\* C21: a reload leaves the isChecked flag of a key alone when the key is in
\* the snapshot and every value the documents hold for it, a scalar or an
\* array, equals the snapshot's value for that locale.
C21_ReloadKeepsUnchanged ==
    (Reloaded /\ last.pre.snapshot.present) =>
        \A k \in KeysOf(last.pre.translations) \cap DOMAIN last.pre.snapshot.state :
            SameAsSnapshot(k) =>
                /\ Has(translations, k)
                /\ Entry(translations, k).isChecked
                     = Entry(last.pre.translations, k).isChecked

\* A reviewed key whose array value is on disk what the snapshot recorded,
\* not reviewed after the reload
C21_UnchangedArrayUnchecked ==
    /\ Reloaded
    /\ last.pre.snapshot.present
    /\ \E k \in KeysOf(last.pre.translations) \cap DOMAIN last.pre.snapshot.state :
         /\ SameAsSnapshot(k)
         /\ \E l \in Range(locales) : <<k, Ay>> \in FilePairs(docs[l])
         /\ Entry(last.pre.translations, k).isChecked
         /\ ~Entry(translations, k).isChecked

\* A reviewed key with an unchanged text is still reviewed after a reload
UnchangedTextKept ==
    /\ last.op = "reload"
    /\ last.pre.snapshot.present
    /\ \E k \in KeysOf(last.pre.translations) \cap DOMAIN last.pre.snapshot.state :
         /\ SameAsSnapshot(k)
         /\ \E l \in Range(locales) : <<k, Twx>> \in FilePairs(docs[l])
         /\ Entry(last.pre.translations, k).isChecked
         /\ Entry(translations, k).isChecked

\* The status document says the key is reviewed, the catalog says it is not
StatusDocAhead(k) ==
    /\ statusDoc.present
    /\ k \in DOMAIN statusDoc.checked
    /\ statusDoc.checked[k]
    /\ Has(translations, k)
    /\ ~Entry(translations, k).isChecked

\* C22: the status document is applied once, by the first initialize: after
\* a watcher reload, a load_from_json or a second initialize, a key is
\* reviewed only if it was reviewed before that step, whatever the status
\* document says, and the manager still records that the document was read.
C22_StatusAppliedOnce ==
    /\ phase = "ready" => hasLoadedInitialCheck
    /\ Reloaded =>
         \A k \in KeysOf(translations) :
             Entry(translations, k).isChecked =>
                 /\ Has(last.pre.translations, k)
                 /\ Entry(last.pre.translations, k).isChecked

\* A second initialize has loaded a key the status document marks reviewed,
\* and the key is not reviewed
C22_Witness ==
    /\ last.op = "reinitialize"
    /\ \E k \in KeysOf(translations) :
         StatusDocAhead(k) /\ ~Has(last.pre.translations, k)

\* The same after the watcher's reload and after load_from_json
C22_ReloadWitness ==
    /\ last.op = "reload"
    /\ \E k \in KeysOf(translations) : StatusDocAhead(k)

C22_LoadWitness ==
    /\ last.op = "load"
    /\ \E k \in KeysOf(translations) : StatusDocAhead(k)

\* The steps that load the documents
Loaded == last.op \in {"initialize", "reload", "load", "reinitialize"}

\* The listed locales whose document does not parse
BadLocales == {l \in Range(locales) : docs[l] = Malformed}

\* The values a catalog holds under a locale, by key
ValuesUnder(trans, l) ==
    {<<trans[n].key, trans[n].translations[l]>> :
        n \in {i \in DOMAIN trans : l \in DOMAIN trans[i].translations}}

\* C23: a locale document that does not parse is skipped on its own: the
\* load ends normally, the catalog holds every pair of every other listed
\* document, and the values it held under the locale of the malformed
\* document are what they were.
C23_MalformedSkipped ==
    (Loaded /\ BadLocales # {}) =>
        /\ phase = "ready"
        /\ ~last.result.threw
        /\ \A l \in Range(locales) \ BadLocales :
             FilePairs(docs[l]) \subseteq ValuesUnder(translations, l)
        /\ \A l \in BadLocales :
             ValuesUnder(translations, l) = ValuesUnder(last.pre.translations, l)

\* pl.json does not parse any more: the catalog keeps its pl value and has
\* the pairs of pl-pl.json
C23_Witness ==
    /\ last.op = "reload"
    /\ BadLocales = {Lpl}
    /\ ValuesUnder(translations, Lpl) # {}
    /\ FilePairs(docs[Lplpl]) # {}
    /\ FilePairs(docs[Lplpl]) \subseteq ValuesUnder(translations, Lplpl)

\* At startup the malformed document is listed first and the other is loaded
MalformedFirst ==
    /\ last.op = "initialize"
    /\ BadLocales = {Lplpl}
    /\ locales = <<Lplpl, Lpl>>
    /\ ValuesUnder(translations, Lpl) # {}

----------------------------------------------------------------------------
(* Failing writes *)

\* The catalog the call just made builds in memory, before it saves
Mutated ==
    CASE last.op = "update" ->
            UpdateEntries(last.pre.translations, last.pre.locales, Triples(last.args))
      [] last.op = "add" ->
            AddEntries([trans |-> last.pre.translations, locs |-> last.pre.locales,
                        addedKeys |-> 0, addedLocales |-> <<>>], last.args).trans
      [] last.op = "delete" ->
            IF ScopedMode
            THEN DeleteScoped([trans |-> <<>>, affected |-> <<>>, count |-> 0],
                              last.pre.translations, LastPrefix, LastLocaleArg.list).trans
            ELSE DeleteWhole(last.pre.translations, LastPrefix)

\* The call just made is a mutation one of whose writes was rejected
WriteFailed == last.op \in {"update", "add", "delete"} /\ last.result.io

\* C24: when a write of a locale document or of the status document fails
\* during update, add or delete, the call returns { success: false, error },
\* and the catalog in memory keeps what the call changed.
C24_WriteFailureReported ==
    WriteFailed =>
        /\ ~last.result.threw
        /\ ~last.result.success
        /\ translations = Mutated

\* A delete whose save was rejected: the keys are gone from memory, and the
\* call ends in an exception, not in a result
C24_DeleteThrows ==
    /\ WriteFailed
    /\ last.op = "delete"
    /\ last.result.threw
    /\ translations = Mutated
    /\ translations # last.pre.translations

\* What the code does: update and add return the failure, no call reports
\* success, and none rolls the catalog back
WriteFailureNotASuccess ==
    WriteFailed =>
        /\ ~last.result.success
        /\ translations = Mutated
        /\ last.op \in {"update", "add"} => ~last.result.threw

UpdateReportsFailure ==
    /\ WriteFailed
    /\ last.op = "update"
    /\ ~last.result.success
    /\ ~last.result.threw
    /\ translations # last.pre.translations

AddReportsStatusFailure ==
    /\ WriteFailed
    /\ last.op = "add"
    /\ disk = "status"
    /\ ~last.result.success
    /\ last.written # {}
    /\ translations # last.pre.translations

----------------------------------------------------------------------------
(* Debounce *)

\* C25: at most one reload timer is pending, and it is the one set by the
\* last notification, a window after it; a reload runs only when a full
\* window has passed since the last notification, and it serves every
\* notification since the reload before it, of which there is at least one:
\* a burst of notifications less than a window apart gets one reload.
C25_Debounce ==
    /\ Cardinality(watch.pending) <= 1
    /\ \A t \in watch.pending :
         t.id = watch.handle /\ t.due = watch.lastNote + Window
    /\ (watch.pending # {}) <=> (watch.unserved > 0)
    /\ (last.op = "reload" /\ watch.reloads > 0) =>
         /\ watch.now - watch.lastNote >= Window
         /\ watch.served >= 1
         /\ watch.unserved = 0

\* Three notifications less than a window apart, then one reload for the three
C25_Witness ==
    /\ last.op = "reload"
    /\ watch.reloads = 1
    /\ watch.served = 3
    /\ watch.lastNote - watch.burstStart >= Window
    /\ watch.pending = {}

\* C26: once notifications have stopped, a reload runs after the last one:
\* notifications not yet served by a reload lead to a state where all are.
C26_ReloadEventuallyRuns ==
    (watch.unserved > 0) ~> (watch.unserved = 0 /\ watch.now - watch.lastNote >= Window)

\* The last notification has been served by a reload
C26_Witness ==
    /\ last.op = "reload"
    /\ watch.notes = MaxNotes
    /\ watch.unserved = 0
    /\ watch.reloads >= 1

\* No cap on the wait: more than a window after the first notification of a
\* burst, no reload has run and one is still waiting
ReloadDeferred ==
    /\ watch.reloads = 0
    /\ watch.unserved = MaxNotes
    /\ watch.now - watch.burstStart > Window
    /\ \E t \in watch.pending : t.due > watch.now

----------------------------------------------------------------------------
(* A reload inside a save *)

\* The value the save writes for a text the update stored
WrittenValue(text, locale) ==
    insertNonBreakingSpaces(processedTranslation(text, locale),
                            getLanguageFromLocale(locale))

\* Two keys with a value under the locale, one a dotted prefix of the other
PrefixConflict(trans, locale) ==
    \E m, n \in DOMAIN trans :
        /\ locale \in DOMAIN trans[m].translations
        /\ locale \in DOMAIN trans[n].translations
        /\ StartsWith(trans[n].key, trans[m].key \o <<".">>)

\* The catalog as the in-memory loop of the last update left it
MutatedCatalog ==
    UpdateEntries(last.pre.translations, last.pre.locales, LastTriples)

\* Neither the catalog the update produced nor the catalog now holds a
\* prefix conflict under the locale
ConflictFree(locale) ==
    /\ ~PrefixConflict(MutatedCatalog, locale)
    /\ ~PrefixConflict(translations, locale)

\* C27: no reload interleaves inside a mutation: whenever an update reports
\* success, every document it wrote holds, for each triple it applied under
\* that document's locale, the value the update set (the locale's keys being
\* free of prefix conflicts).
C27_NoReloadInsideMutation ==
    (last.op = "update" /\ last.result.success) =>
        \A i \in AppliedTriples :
            LET triple == LastTriples[i]
            IN (triple[2] \in last.written /\ ConflictFree(triple[2])) =>
                 <<triple[1], WrittenValue(triple[3], triple[2])>>
                     \in FilePairs(docs[triple[2]])

\* An update stored "w x" under a key of pl-pl and of pl, wrote pl.json,
\* was suspended, and the reload timer of an earlier edit fired: the reload
\* put the document's text back in memory, the save then wrote that text to
\* pl-pl.json, and the update returned success
C27_ReloadLostUpdate ==
    /\ last.op = "update"
    /\ last.result.success
    /\ \E i \in AppliedTriples :
         LET triple == LastTriples[i]
         IN /\ triple[2] \in last.written
            /\ ConflictFree(triple[2])
            /\ <<triple[1], WrittenValue(triple[3], triple[2])>>
                   \notin FilePairs(docs[triple[2]])
            /\ Prop(Entry(translations, triple[1]).translations, triple[2])
                   # processedTranslation(triple[3], triple[2])
            /\ Prop(Entry(translations, triple[1]).translations, triple[2])
                   = Prop(Entry(last.pre.translations, triple[1]).translations, triple[2])

\* While a save is suspended a reload leaves the values the update stored
\* as they are
SavingKeepsMemory ==
    [][(phase = "saving" /\ phase' = "saving") =>
          \A i \in AppliedTriples :
              LET triple == LastTriples[i]
              IN Prop(Entry(translations', triple[1]).translations, triple[2])
                   = Prop(Entry(translations, triple[1]).translations, triple[2])]_vars

----------------------------------------------------------------------------
(* Tree codec *)

\* Two values are the same up to the order of the members of their objects
RECURSIVE StructurallyEqual(_, _)
StructurallyEqual(x, y) ==
    IF x.t = "obj" /\ y.t = "obj"
    THEN /\ {e.k : e \in Range(x.kv)} = {e.k : e \in Range(y.kv)}
         /\ \A e \in Range(x.kv) : StructurallyEqual(e.v, GetMember(y, e.k))
    ELSE x = y

\* C28: unflatten(flatten(tree)) is structurally equal to tree, for every
\* tree of scalar and array leaves, those with an empty nested object, a
\* falsy leaf or a member name that holds a '.' included.
C28_RoundTrip ==
    last.op = "roundTrip" => StructurallyEqual(last.result.value, last.args)

\* The tree has an empty object below its root
RECURSIVE HasEmptyObject(_)
HasEmptyObject(x) ==
    /\ x.t = "obj"
    /\ \E e \in Range(x.kv) : e.v = EmptyObject \/ HasEmptyObject(e.v)

\* The tree has a member whose name holds a '.'
RECURSIVE HasDottedName(_)
HasDottedName(x) ==
    /\ x.t = "obj"
    /\ \E e \in Range(x.kv) : "." \in Range(e.k) \/ HasDottedName(e.v)

\* { "a": {} } comes back as {}
C28_EmptyObjectLost ==
    /\ last.op = "roundTrip"
    /\ last.args = Obj1(<<"a">>, EmptyObject)
    /\ last.result.value = EmptyObject

\* { "a.b": "w x" } comes back as { "a": { "b": "w x" } }
DottedNameNested ==
    /\ last.op = "roundTrip"
    /\ last.args = Obj1(<<"a", ".", "b">>, Twx)
    /\ last.result.value = Obj1(<<"a">>, Obj1(<<"b">>, Twx))

\* { "a": "w x", "a.b": "w x" } does not come back: unflatten throws
DottedNameThrows ==
    /\ last.op = "roundTrip"
    /\ last.args = Obj2(<<"a">>, Twx, <<"a", ".", "b">>, Twx)
    /\ last.result.value = Throw

\* The round trip of every tree with no empty object below the root and no
\* '.' in a member name, its falsy leaves and arrays included
RoundTripOfPlainTrees ==
    (last.op = "roundTrip" /\ ~HasEmptyObject(last.args) /\ ~HasDottedName(last.args))
        => StructurallyEqual(last.result.value, last.args)

\* Such a tree with a falsy leaf, an array and two levels
PlainTreeRoundTrip ==
    /\ last.op = "roundTrip"
    /\ last.args = Obj2(<<"b">>, Obj1(<<"a">>, TEmpty), <<"a">>, Ay)
    /\ last.result.value = Obj2(<<"a">>, Ay, <<"b">>, Obj1(<<"a">>, TEmpty))

\* The orders of a list
RECURSIVE Orders(_)
Orders(seq) ==
    IF seq = <<>> THEN {<<>>}
    ELSE UNION {{<<seq[i]>> \o q :
                    q \in Orders(SubSeq(seq, 1, i - 1)
                                           \o SubSeq(seq, i + 1, Len(seq)))} :
                i \in DOMAIN seq}

\* A key of the list is a dotted prefix of another
HasPrefixKey(flatData) ==
    \E i, j \in DOMAIN flatData : StartsWith(flatData[j][1], flatData[i][1] \o <<".">>)

\* C29: for a list of pairs with distinct keys, none a dotted prefix of
\* another, unflatten returns for every order of the list the tree it
\* returns for this one, members in the same order.
C29_OrderIndependent ==
    (last.op = "unflatten" /\ ~HasPrefixKey(last.args)) =>
        \A q \in Orders(last.args) : unflattenJson(q) = last.result.value

\* Three pairs given deepest first, a.c before a.b and b after both: the
\* tree has b first and, under a, b before c
C29_Witness ==
    /\ last.op = "unflatten"
    /\ last.args = << <<<<"a", ".", "c">>, Twx>>, <<<<"a", ".", "b">>, TEmpty>>,
                      <<<<"b">>, Ay>> >>
    /\ last.result.value = Obj2(<<"b">>, Ay,
                                <<"a">>, Obj2(<<"b">>, TEmpty, <<"c">>, Twx))

\* C30: when the pairs hold a key with a scalar leaf and a longer key under
\* it, unflatten returns a tree and raises no error.
C30_ConflictOverwrites ==
    (last.op = "unflatten"
        /\ \E i, j \in DOMAIN last.args :
             /\ last.args[i][2].t = "str"
             /\ StartsWith(last.args[j][1], last.args[i][1] \o <<".">>))
        => last.result.value.t = "obj"

\* a = "w x" with a.b: unflatten throws (a member of a string is assigned
\* in strict code)
C30_TruthyLeafThrows ==
    /\ last.op = "unflatten"
    /\ last.args = << <<<<"a", ".", "b">>, Twx>>, <<<<"a">>, Twx>> >>
    /\ last.result.value = Throw

\* a = "" with a.b: the empty text is replaced by an object, no error
FalsyLeafReplaced ==
    /\ last.op = "unflatten"
    /\ last.args = << <<<<"a", ".", "b">>, Twx>>, <<<<"a">>, TEmpty>> >>
    /\ last.result.value = Obj1(<<"a">>, Obj1(<<"b">>, Twx))

\* The conflict under a falsy leaf or an array raises no error
FalsyConflictReturns ==
    (last.op = "unflatten"
        /\ \A i, j \in DOMAIN last.args :
             StartsWith(last.args[j][1], last.args[i][1] \o <<".">>)
                 => Falsy(last.args[i][2]) \/ last.args[i][2].t = "arr")
        => last.result.value.t = "obj"

----------------------------------------------------------------------------
(* Entries and the documents *)

\* C33: the catalog never holds an entry whose translations map is empty:
\* in every state each entry has a value under at least one locale.
C33_NoEmptyEntry ==
    \A i \in DOMAIN translations : DOMAIN translations[i].translations # {}

\* add of a new key mapped to no locale left an entry with no value, and
\* the call returned success
C33_AddCreatesEmptyEntry ==
    /\ last.op = "add"
    /\ last.result.success
    /\ \E i \in DOMAIN last.args :
         /\ last.args[i][2] = <<>>
         /\ ~Has(last.pre.translations, last.args[i][1])
         /\ Has(translations, last.args[i][1])
         /\ DOMAIN Entry(translations, last.args[i][1]).translations = {}

\* Load, update, mark and both deletion modes leave no entry empty that was
\* not empty before
OnlyAddEmpties ==
    (last.op \in {"initialize", "reload", "load", "reinitialize", "update", "markChecked", "delete"}
        /\ \A i \in DOMAIN last.pre.translations :
               DOMAIN last.pre.translations[i].translations # {})
        => \A i \in DOMAIN translations : DOMAIN translations[i].translations # {}

\* A locale-scoped delete took the last value of an entry and removed the
\* entry
ScopedDeleteRemovesEntry ==
    /\ last.op = "delete"
    /\ ~WholeKeyMode
    /\ \E i \in DOMAIN last.pre.translations :
         /\ Cardinality(DOMAIN last.pre.translations[i].translations) = 1
         /\ ~Has(translations, last.pre.translations[i].key)

\* C36: after a reload the catalog reflects the documents just read: every
\* value it holds under a key and a locale is the value that locale's
\* document holds under that key.
C36_ReloadReflectsDocs ==
    last.op = "reload" =>
        \A i \in DOMAIN translations :
            \A l \in DOMAIN translations[i].translations :
                <<translations[i].key, translations[i].translations[l]>>
                    \in FilePairs(docs[l])

\* An external edit took a key the earlier load had read out of every
\* document (all of them parse); after the reload the catalog still holds
\* the key
C36_RemovedKeyStays ==
    /\ last.op = "reload"
    /\ \A l \in Locales : docs[l].t \in {"obj", "absent"}
    /\ \E i \in DOMAIN translations :
         /\ translations[i].key \in DOMAIN last.pre.snapshot.state
         /\ \A l \in Locales : translations[i].key \notin FileKeys(docs[l])

\* A later update or add of another key, called when no reload was pending,
\* wrote such a key back to a document
StaleKeyWrittenBack ==
    /\ last.op \in {"update", "add"}
    /\ last.result.success
    /\ ~last.pre.reloadTimer
    /\ \A l \in Locales : last.pre.docs[l].t \in {"obj", "absent"}
    /\ \E l \in last.written :
         \E k \in FileKeys(docs[l]) :
            /\ \A i \in DOMAIN last.args : last.args[i][1] # k
            /\ \A l2 \in Locales : k \notin FileKeys(last.pre.docs[l2])

\* Every value the catalog held before the last delete under a locale that
\* the list does not name is still there
UnlistedValuesKept ==
    \A i \in DOMAIN last.pre.translations :
        LET e == last.pre.translations[i]
        IN \A l \in DOMAIN e.translations \ Range(LastLocaleArg.list) :
               /\ Has(translations, e.key)
               /\ Prop(Entry(translations, e.key).translations, l) = e.translations[l]

\* C39: a delete called with a locales list, the empty list included,
\* removes no value stored under a locale that is not in the list.
C39_ListedLocalesOnly ==
    (last.op = "delete" /\ LastPrefix # <<>> /\ LastLocaleArg.given) => UnlistedValuesKept

\* A delete with the empty list removed an entry of the prefix with all its
\* values, and returned success
C39_EmptyListDeletesWholeKey ==
    /\ last.op = "delete"
    /\ LastPrefix # <<>>
    /\ LastLocaleArg.given
    /\ LastLocaleArg.list = <<>>
    /\ last.result.success
    /\ \E i \in DOMAIN last.pre.translations :
         /\ DOMAIN last.pre.translations[i].translations # {}
         /\ ~Has(translations, last.pre.translations[i].key)

\* With a list that names a locale the unlisted values are kept
ListedLocalesOnlyWhenNamed ==
    (last.op = "delete" /\ LastPrefix # <<>> /\ LastLocaleArg.given
        /\ LastLocaleArg.list # <<>>) => UnlistedValuesKept

\* The value the catalog holds under a key and a locale, if any
ValueAt(trans, key, locale) ==
    IF Has(trans, key) THEN Prop(Entry(trans, key).translations, locale) ELSE Undefined

\* The last call changed no value of the catalog under the locale
NoChangeUnder(locale) ==
    \A key \in KeysOf(last.pre.translations) \cup KeysOf(translations) :
        ValueAt(translations, key, locale) = ValueAt(last.pre.translations, key, locale)

\* The last call did not name the locale and changed no value under it
Untouched(locale) ==
    /\ NoChangeUnder(locale)
    /\ last.op \in {"add", "update"} =>
          \A i \in DOMAIN last.args :
              \A j \in DOMAIN last.args[i][2] : last.args[i][2][j][1] # locale
    /\ last.op = "delete" => locale \notin Range(LastLocaleArg.list)

\* The locale's document did not parse when the call began, and no edit was
\* waiting for its reload: it is the document the last load found
FailedToParse(locale) ==
    /\ last.pre.docs[locale] = Malformed
    /\ ~last.pre.reloadTimer

\* C38: a locale document that failed to parse at load is not in locales,
\* and an add or a delete that changed no value under that locale leaves
\* the document as it was.
C38_MalformedUntouched ==
    last.op \in {"add", "delete"} =>
        \A l \in Locales :
            (FailedToParse(l) /\ Untouched(l)) =>
                /\ l \notin Range(last.pre.locales)
                /\ docs[l] = Malformed

\* pl.json did not parse at load; an add under pl-pl only returned success
\* and pl.json is now a document that parses
C38_MalformedOverwritten ==
    /\ last.op = "add"
    /\ last.result.success
    /\ FailedToParse(Lpl)
    /\ Untouched(Lpl)
    /\ Lpl \in Range(last.pre.locales)
    /\ docs[Lpl].t = "obj"

\* The same after a whole-key delete
MalformedOverwrittenByDelete ==
    /\ last.op = "delete"
    /\ WholeKeyMode
    /\ last.result.success
    /\ \E l \in Locales :
         /\ FailedToParse(l)
         /\ Untouched(l)
         /\ docs[l].t = "obj"

\* update and the locale-scoped delete write only the locales they name,
\* and leave such a document as it was
MalformedKeptByScopedSaves ==
    (last.op = "update" \/ (last.op = "delete" /\ ~WholeKeyMode)) =>
        \A l \in Locales :
            (FailedToParse(l) /\ Untouched(l)) => docs[l] = Malformed

\* The (key, value) pairs the catalog holds under a locale
MemoryPairs(trans, locale) ==
    {<<trans[i].key, trans[i].translations[locale]>> :
        i \in {j \in DOMAIN trans : locale \in DOMAIN trans[j].translations}}

\* C35: after a successful save every document it wrote decodes, by
\* flatten, to exactly the pairs the catalog holds under that locale, for
\* the keys the call touched and for the others.
C35_SavedDocIsMemory ==
    (last.op \in {"update", "add", "delete"} /\ last.result.success) =>
        \A l \in last.written : FilePairs(docs[l]) = MemoryPairs(translations, l)

\* An update of another key wrote pl.json: the catalog holds "w x" under a
\* key it loaded and did not touch, the document holds "w<nbsp>x"
C35_UntouchedKeyDiffers ==
    /\ last.op = "update"
    /\ last.result.success
    /\ Lpl \in last.written
    /\ \E i \in DOMAIN translations :
         /\ \A n \in DOMAIN last.args : last.args[n][1] # translations[i].key
         /\ Prop(translations[i].translations, Lpl) = Twx
         /\ <<translations[i].key, Wx>> \in FilePairs(docs[Lpl])
         /\ <<translations[i].key, Twx>> \in FilePairs(last.pre.docs[Lpl])

\* No editor has written a document, and the reload that followed the
\* manager's own save changed a value of the catalog and unchecked its key
ReloadAfterSaveUnchecks ==
    /\ last.op = "reload"
    /\ nEdits = 0
    /\ \E i \in DOMAIN last.pre.translations :
         LET e == last.pre.translations[i]
         IN /\ e.isChecked
            /\ ~Entry(translations, e.key).isChecked
            /\ e.translations # Entry(translations, e.key).translations

\* When the typography transform leaves every value the catalog holds under
\* the locale as it is, and no key of the locale is a dotted prefix of
\* another, the document a save wrote is the memory
SavedDocIsMemoryWithoutTypography ==
    (last.op \in {"update", "add", "delete"} /\ last.result.success) =>
        \A l \in last.written :
            (/\ ~PrefixConflict(translations, l)
             /\ \A kv \in MemoryPairs(translations, l) :
                    insertNonBreakingSpaces(kv[2], getLanguageFromLocale(l)) = kv[2])
                => FilePairs(docs[l]) = MemoryPairs(translations, l)

----------------------------------------------------------------------------
(* Review status over calls and restarts *)

\* C31: a reload that happens with no external edit to any locale document
\* (the one the manager's own write schedules) leaves checked every key
\* that was checked.
C31_OwnReloadKeepsChecked ==
    (last.op = "reload" /\ nEdits = 0) =>
        \A i \in DOMAIN last.pre.translations :
            last.pre.translations[i].isChecked
                => Entry(translations, last.pre.translations[i].key).isChecked

\* No editor wrote anything: an update saved key a, markChecked("a") marked
\* it, and the reload scheduled by the update's write unchecked it
C31_OwnWriteUnchecks ==
    /\ last.op = "reload"
    /\ nEdits = 0
    /\ nOps = 2
    /\ Has(last.pre.translations, Ka)
    /\ Entry(last.pre.translations, Ka).isChecked
    /\ ~Entry(translations, Ka).isChecked

\* C32: after the initial load of a process that finds a snapshot, a key
\* whose document value is not the snapshot's value for that locale is
\* unchecked, whatever the status document records.
C32_InitialLoadUnchecksChanged ==
    (last.op = "initialize" /\ last.pre.snapshot.present) =>
        \A l \in Range(locales) :
            \A kv \in FilePairs(docs[l]) :
                (/\ kv[1] \in DOMAIN last.pre.snapshot.state
                 /\ StrictNotEqual(Prop(last.pre.snapshot.state[kv[1]], l), kv[2]))
                    => ~Entry(translations, kv[1]).isChecked

\* The document was edited after the snapshot was written and before the
\* process started, the status document records the key as checked, and the
\* key is checked after the initial load
C32_StatusOverridesDiff ==
    /\ last.op = "initialize"
    /\ last.pre.snapshot.present
    /\ statusDoc.present
    /\ \E l \in Range(locales) :
         \E kv \in FilePairs(docs[l]) :
            /\ kv[1] \in DOMAIN last.pre.snapshot.state
            /\ l \in DOMAIN last.pre.snapshot.state[kv[1]]
            /\ last.pre.snapshot.state[kv[1]][l] # kv[2]
            /\ kv[1] \in DOMAIN statusDoc.checked
            /\ statusDoc.checked[kv[1]]
            /\ Entry(translations, kv[1]).isChecked

\* Without a status document that records the key as checked, it is
\* unchecked
InitialLoadUnchecksWithoutStatus ==
    (last.op = "initialize" /\ last.pre.snapshot.present) =>
        \A l \in Range(locales) :
            \A kv \in FilePairs(docs[l]) :
                (/\ kv[1] \in DOMAIN last.pre.snapshot.state
                 /\ StrictNotEqual(Prop(last.pre.snapshot.state[kv[1]], l), kv[2])
                 /\ ~(/\ statusDoc.present
                      /\ kv[1] \in DOMAIN statusDoc.checked
                      /\ statusDoc.checked[kv[1]]))
                    => ~Entry(translations, kv[1]).isChecked

\* Such a key, recorded as unchecked by the status document, is unchecked
\* after the initial load
InitialLoadUnchecked ==
    /\ last.op = "initialize"
    /\ last.pre.snapshot.present
    /\ statusDoc.present
    /\ \E l \in Range(locales) :
         \E kv \in FilePairs(docs[l]) :
            /\ kv[1] \in DOMAIN last.pre.snapshot.state
            /\ l \in DOMAIN last.pre.snapshot.state[kv[1]]
            /\ last.pre.snapshot.state[kv[1]][l] # kv[2]
            /\ ~statusDoc.checked[kv[1]]
            /\ ~Entry(translations, kv[1]).isChecked

\* The keys the reload before the restart flipped to unchecked
FlippedBeforeRestart ==
    {k \in KeysOf(last.pre.translations) \cap KeysOf(last.args.translations) :
        /\ Entry(last.args.translations, k).isChecked
        /\ ~Entry(last.pre.translations, k).isChecked}

\* C37: a key that a reload flipped to unchecked, with no markChecked
\* after it, is unchecked after the process is restarted and has done its
\* initial load over the same files.
C37_InvalidationSurvivesRestart ==
    (last.op = "restart" /\ last.args.op = "reload") =>
        \A k \in FlippedBeforeRestart :
            Has(translations, k) => ~Entry(translations, k).isChecked

\* The reload unchecked key a, the process was restarted right after it,
\* and a is checked again
C37_FlipLostOnRestart ==
    /\ last.op = "restart"
    /\ last.args.op = "reload"
    /\ Ka \in FlippedBeforeRestart
    /\ Has(translations, Ka)
    /\ Entry(translations, Ka).isChecked
    /\ statusDoc.present
    /\ statusDoc.checked[Ka]

----------------------------------------------------------------------------
(* Reloads in flight *)

\* C34: at most one reload is executing at any time: a reload never starts
\* while an earlier one is suspended on its reads or its snapshot write.
C34_OneLoadAtATime == Cardinality(watch.running) <= 1

\* A second reload has started while the first, which has read one of its
\* two documents, is suspended before the other
C34_TwoReloadsInFlight ==
    /\ last.op = "reloadStarts"
    /\ \E r1, r2 \in watch.running :
         /\ r1.id = 1
         /\ r2.id = 2
         /\ Len(r1.files) = 1
         /\ Len(r2.files) = 2

\* The second reload started, read its documents and wrote the snapshot
\* while the first still had a document to read; the first read it after
\* that
ReloadsInterleaved ==
    /\ last.op = "reloadReads"
    /\ last.args = <<1>>
    /\ watch.reloads = 2
    /\ watch.running = {[id |-> 1, files |-> <<>>]}

====
